---- MODULE Spec2Model ----
(***************************************************************************)
(* first_mate: search aggregation (TorrentManager.search_torrents), the    *)
(* condemnation predicate (_should_retry_torrent) and the monitor tick     *)
(* (monitor_and_manage_torrents) with its replacement step, together with  *)
(* the blacklist / history stores and the download client they act on.     *)
(*                                                                         *)
(* Python values are modelled as follows: a str is a TLA+ string, a dict   *)
(* is a function whose domain is the set of keys present, a list is a      *)
(* sequence, None is the value None below, a float size in GB is an        *)
(* integer number of tenths of a GB.                                       *)
(***************************************************************************)
EXTENDS Integers, Sequences, FiniteSets, TLC

VARIABLES
    blacklist,      \* TorrentManager.blacklist (in-memory set of hashes)
    blacklistFile,  \* content of the "hashes" field of blacklist.json
    history,        \* TorrentManager.history (in-memory list)
    historyFile,    \* content of history.json
    client,         \* torrents held by qBittorrent, in added_on order
    mpc,            \* position of the monitor inside monitor_and_manage_torrents
    ticks,          \* ticks started so far
    tickList,       \* the list returned by get_all_torrents for this tick
    idx,            \* index of the torrent the for-loop is at
    best,           \* the alternative chosen by _find_and_add_alternative
    cur,            \* what the monitor did so far for the torrent the loop is at
    evaluated,      \* torrents of tickList the predicate was evaluated on
    userRemoved,    \* hashes a user request removed from the blacklist in this tick
    removals,       \* user requests served so far
    searchIn,       \* arguments and adapter answers of a search_torrents call
    searchIdx,      \* pool positions of the records search_torrents returned
    searchOut,      \* the list search_torrents returned
    retryArg,       \* the status dict handed to _should_retry_torrent
    retryOut,       \* what _should_retry_torrent returned
    phase,          \* "ready" before, "done" after the call SpecSearch / SpecRetry examine
    monitoring_active,  \* server.py global: the running flag
    monitoring_thread,  \* server.py global: the handle of the thread last created
    loops,          \* position of every monitor_torrents_loop thread created so far
    starting,       \* the flag as read by each start request between lines 155 and 158
    reply,          \* the response of the last request served
    writers,        \* position of the threads that mutate and save a store
    clock,          \* logical clock, advanced by every step of add_torrent
    call,           \* the last add_torrent call: its times and its outcome
    lastOp          \* the last blacklist operation: its kind, hash and state before

\* the variables of the request handlers and the loop control
serverVars == <<monitoring_active, monitoring_thread, loops, starting, reply, writers,
                clock, call, lastOp>>

vars == <<blacklist, blacklistFile, history, historyFile, client, mpc, ticks,
          tickList, idx, best, cur, evaluated, userRemoved, removals, searchIn,
          searchIdx, searchOut, retryArg, retryOut, phase, monitoring_active,
          monitoring_thread, loops, starting, reply, writers, clock, call, lastOp>>

(***************************************************************************)
(* Bounds of the model.                                                    *)
(***************************************************************************)
\* results one source adapter returns to a search_torrents call of SpecSearch
MaxResults == 2
\* results one source adapter returns to a replacement search of the monitor
MaxAlternatives == 1
\* torrents the download client holds at the start
MaxTorrents == 2
\* ticks of the monitor in one behaviour
MaxTicks == 2
\* user requests in one behaviour
MaxRemovals == 1

(***************************************************************************)
(* Python primitives.                                                      *)
(***************************************************************************)
None == "<None>"

\* float('inf'), the default of max_size_gb: above every size of the model
Inf == 999999

\* dict.get(key, default)
Get(d, k, default) == IF k \in DOMAIN d THEN d[k] ELSE default

UpperChars == "ABCDEFGHIJKLMNOPQRSTUVWXYZ"
LowerChars == "abcdefghijklmnopqrstuvwxyz"
HexChars == "0123456789abcdefABCDEF"

CharAt(s, i) == SubSeq(s, i, i)

\* the lower-case letter of every upper-case letter
LowerOf ==
    [c \in {CharAt(UpperChars, i) : i \in 1..Len(UpperChars)} |->
        CharAt(LowerChars, CHOOSE i \in 1..Len(UpperChars) : CharAt(UpperChars, i) = c)]

LowerChar(c) == IF c \in DOMAIN LowerOf THEN LowerOf[c] ELSE c

\* str.lower(), character by character
RECURSIVE LowerByChar(_)
LowerByChar(s) ==
    IF s = "" THEN ""
    ELSE LowerChar(CharAt(s, 1)) \o LowerByChar(SubSeq(s, 2, Len(s)))

\* the Python test  t in s  on two strings
Contains(s, t) ==
    \E i \in 1..(Len(s) - Len(t) + 1) : SubSeq(s, i, i + Len(t) - 1) = t

HexSet == {CharAt(HexChars, i) : i \in 1..Len(HexChars)}
IsHex(c) == c \in HexSet

\* the lower bound taken as exclusive
SizeLessOrEqual(x, y) == x <= y

\* x < y and x > y on sizes
SizeLess(x, y) == x < y
SizeGreater(x, y) == x > y

(***************************************************************************)
(* Config (config.py).                                                     *)
(***************************************************************************)
MIN_DOWNLOAD_SPEED_KB == 10
MIN_SEEDS == 1
HASH_LEN == 40

QualityTiers == {"720p", "1080p", "2160p", "480p"}

QUALITY_KEYWORDS(q) ==
    CASE q = "720p"  -> <<"720p", "HD", "HDTV">>
      [] q = "1080p" -> <<"1080p", "FHD", "Full HD", "FullHD">>
      [] q = "2160p" -> <<"2160p", "4K", "UHD">>
      [] q = "480p"  -> <<"480p", "SD">>
      [] OTHER       -> <<>>

ALLOWED_VIDEO_EXTENSIONS == <<".mkv", ".mp4", ".avi", ".mov", ".wmv", ".flv">>
EXCLUDED_EXTENSIONS == <<".txt", ".nfo", ".jpg", ".png", ".srt", ".sub">>

\* any(p(x) for x in seq)
AnyIn(seq, P(_)) == \E i \in 1..Len(seq) : P(seq[i])

(***************************************************************************)
(* Source adapters (1337x.py, scraper_watchsomuch.py): the records they    *)
(* hand to the aggregator.                                                 *)
(***************************************************************************)
\* the 40 characters as the magnet spells them
TorrentHashAsWritten(magnet) ==
    IF magnet = None THEN None
    ELSE LET starts == {i \in 1..(Len(magnet) - HASH_LEN - 4) :
                            /\ SubSeq(magnet, i, i + 4) = "btih:"
                            /\ \A j \in 1..HASH_LEN : IsHex(CharAt(magnet, i + 4 + j))}
         IN IF starts = {} THEN None
            ELSE LET i == CHOOSE k \in starts : \A l \in starts : k <= l
                 IN SubSeq(magnet, i + 5, i + 4 + HASH_LEN)

\* re.search(r'btih:([a-fA-F0-9]{40})', magnet), then group(1).lower()
TorrentHash(magnet) ==
    IF magnet = None THEN None
    ELSE LET starts == {i \in 1..(Len(magnet) - HASH_LEN - 4) :
                            /\ SubSeq(magnet, i, i + 4) = "btih:"
                            /\ \A j \in 1..HASH_LEN : IsHex(CharAt(magnet, i + 4 + j))}
         IN IF starts = {} THEN None
            ELSE LET i == CHOOSE k \in starts : \A l \in starts : k <= l
                 IN LowerByChar(SubSeq(magnet, i + 5, i + 4 + HASH_LEN))

\* Scraper1337x._parse_row: the dict built from one row of the result table
Row1337x(name, seeds, size_gb) ==
    [name |-> name, seeds |-> seeds, size_gb |-> size_gb,
     source |-> "1337x", magnet_link |-> None]

\* ScraperWatchSoMuch._parse_item
RowWatchSoMuch(name, seeds, size_gb) ==
    [name |-> name, seeds |-> seeds, size_gb |-> size_gb,
     source |-> "watchsomuch", magnet_link |-> None, hash |-> None]

\* Scraper1337x.get_torrent_details on a page that could be fetched
Details1337x(magnet, files) ==
    [magnet_link |-> magnet, hash |-> TorrentHash(magnet), files |-> files]

\* ScraperWatchSoMuch.get_torrent_details on a page that could be fetched
DetailsWatchSoMuch(magnet) ==
    [magnet_link |-> magnet, hash |-> TorrentHash(magnet)]

\* get_torrent_details returning None: the page could not be fetched
NoDetails == [fetch_failed |-> TRUE]

\* the body of the loop of search_with_magnets / search_with_details:
\* details = None leaves the row as it was
WithDetails(result, details) ==
    IF details = NoDetails THEN result
    ELSE [k \in DOMAIN result \cup DOMAIN details |->
            IF k \in DOMAIN details THEN details[k] ELSE result[k]]

\* info-hashes of the torrents of the model
H1 == "aaaaaaaaaaaaaaaaaaaaaaaaaaaaaaaaaaaaaaaa"
H2 == "bbbbbbbbbbbbbbbbbbbbbbbbbbbbbbbbbbbbbbbb"
H3 == "cccccccccccccccccccccccccccccccccccccccc"
Hashes == {H1, H2, H3}

\* magnet links as the detail pages carry them: hex, upper-case hex, base32
MagnetHex(h) == "magnet:?xt=urn:btih:" \o h \o "&dn=x"
M1 == MagnetHex(H1)
M2Upper == "magnet:?xt=urn:btih:BBBBBBBBBBBBBBBBBBBBBBBBBBBBBBBBBBBBBBBB"
M2 == MagnetHex(H2)
M3 == MagnetHex(H3)
M1Base32 == "magnet:?xt=urn:btih:VKVKVKVKVKVKVKVKVKVKVKVKVKVKVKVK&dn=x"
Magnets == {M1, M2, M2Upper, M3, M1Base32}

\* what Scraper1337x.search_with_magnets can return, one record per row
Records1337x ==
    { WithDetails(Row1337x("Show S01E01 1080p", 50, 12),
                  Details1337x(M1, <<"Show.S01E01.MKV", "info.nfo">>)),
      WithDetails(Row1337x("Show FULLHD", 5, 10),
                  Details1337x(M2Upper, <<"readme.txt">>)),
      WithDetails(Row1337x("Show 720p HDTV", 5, 20), NoDetails),
      WithDetails(Row1337x("Show 1080p x264", 5, 12),
                  Details1337x(M1Base32, <<>>)) }

\* what ScraperWatchSoMuch.search_with_details can return
RecordsWatchSoMuch ==
    { WithDetails(RowWatchSoMuch("Show S01E01 720p", 5, 8), DetailsWatchSoMuch(M2)),
      WithDetails(RowWatchSoMuch("Show 1080p WEB", 5, 12), DetailsWatchSoMuch(M3)),
      WithDetails(RowWatchSoMuch("Show 1080P.MP4", 50, 10), NoDetails),
      WithDetails(RowWatchSoMuch("Show FHD", 0, 12), DetailsWatchSoMuch(M1)) }

SeqsUpTo(S, n) == UNION {[1..k -> S] : k \in 0..n}

\* an adapter call either raises or returns a list of at most MaxResults records
Raised == [raised |-> TRUE, results |-> <<>>]
Returned(results) == [raised |-> FALSE, results |-> results]
Answers1337x(n) == {Raised} \cup {Returned(rs) : rs \in SeqsUpTo(Records1337x, n)}
AnswersWatchSoMuch(n) ==
    {Raised} \cup {Returned(rs) : rs \in SeqsUpTo(RecordsWatchSoMuch, n)}

\* the state labels qBittorrent reports
StateLabels == {"downloading", "stalledDL", "stalledUP", "error", "missingFiles",
                "uploading", "pausedDL", "Error", "metaDL"}

\* names of the files a torrent of the model can carry
PayloadFileNames ==
    {"Show.S01E01.MKV", "info.nfo", "Sample.SUB.mp4", "COVER.JPG", "subs.srt",
     "Show.part1.rar"}

\* the strings the program lower-cases: names, file names, keywords, state labels
LoweredStrings ==
    LET records == Records1337x \cup RecordsWatchSoMuch
        elems(seq) == {seq[i] : i \in 1..Len(seq)}
    IN  {r.name : r \in records}
            \cup UNION {elems(Get(r, "files", <<>>)) : r \in records}
            \cup UNION {elems(QUALITY_KEYWORDS(q)) : q \in QualityTiers}
            \cup StateLabels \cup {""}

\* str.lower() of each of them, computed once
LowerTable == [s \in LoweredStrings |-> LowerByChar(s)]

\* str.lower()
Lower(s) == IF s \in LoweredStrings THEN LowerTable[s] ELSE LowerByChar(s)

(***************************************************************************)
(* TorrentManager._filter_results and search_torrents.  Both are computed  *)
(* on positions of the accumulated pool, so that the records returned are  *)
(* the pool's own objects, as in the code.                                 *)
(***************************************************************************)
\* the extension test without lower-casing the file name
HasVideoExtCaseSensitive(f) == AnyIn(ALLOWED_VIDEO_EXTENSIONS, LAMBDA ext : Contains(f, ext))

\* any(ext in f.lower() for ext in Config.ALLOWED_VIDEO_EXTENSIONS)
HasVideoExt(f) == AnyIn(ALLOWED_VIDEO_EXTENSIONS, LAMBDA ext : Contains(Lower(f), ext))

\* the keywords of every tier are accepted, whatever tier is asked for
MatchesQualityOfAnyTier(name, quality) ==
    \E q \in QualityTiers :
        AnyIn(QUALITY_KEYWORDS(q), LAMBDA kw : Contains(name, Lower(kw)))

\* a quality that is no key of QUALITY_KEYWORDS filters nothing
MatchesQualityOrUnknownTier(name, quality) ==
    \/ quality \notin QualityTiers
    \/ AnyIn(QUALITY_KEYWORDS(quality), LAMBDA kw : Contains(name, Lower(kw)))

\* lines 156-158: any(kw.lower() in name.lower() for kw in quality_keywords), with
\* quality_keywords = Config.QUALITY_KEYWORDS.get(quality, [])
MatchesQuality(name, quality) ==
    AnyIn(QUALITY_KEYWORDS(quality), LAMBDA kw : Contains(name, Lower(kw)))

\* without a file list the name itself has to carry a media extension
PassesFileFilterOrName(name, files) ==
    IF files # <<>> THEN AnyIn(files, HasVideoExt)
    ELSE AnyIn(ALLOWED_VIDEO_EXTENSIONS, LAMBDA ext : Contains(name, ext))

\* lines 168-175: with a file list, any file with a video extension; has_video_ext,
\* computed from the name at lines 162-165, is not used
PassesFileFilter(name, files) ==
    files = <<>> \/ AnyIn(files, HasVideoExt)

\* one pass of the loop body of _filter_results: TRUE when the record is appended
KeepResult(result, quality, min_size_gb, max_size_gb) ==
    LET size_gb == Get(result, "size_gb", 0)
        name == Lower(Get(result, "name", ""))
        files == Get(result, "files", <<>>)
    IN  IF SizeLess(size_gb, min_size_gb) \/ SizeGreater(size_gb, max_size_gb)
        THEN FALSE
        ELSE IF quality # "" /\ ~MatchesQuality(name, quality)
        THEN FALSE
        ELSE IF ~PassesFileFilter(name, files)
        THEN FALSE
        ELSE TRUE

\* _filter_results: the positions of the records kept, in order
FilterResults(results, quality, min_size_gb, max_size_gb) ==
    SelectSeq([i \in 1..Len(results) |-> i],
              LAMBDA i : KeepResult(results[i], quality, min_size_gb, max_size_gb))

\* the key of the sort: x.get('seeds', 0)
SeedsKey(x) == Get(x, "seeds", 0)

\* a tie goes in front of the records already placed
InsertTiesFirst(pool, sorted, i) ==
    LET p == Cardinality({j \in 1..Len(sorted) :
                            SeedsKey(pool[sorted[j]]) > SeedsKey(pool[i])})
    IN  SubSeq(sorted, 1, p) \o <<i>> \o SubSeq(sorted, p + 1, Len(sorted))

\* list.sort(key, reverse=True) places a record behind every record already
\* placed whose key is at least its own
InsertBySeeds(pool, sorted, i) ==
    LET p == Cardinality({j \in 1..Len(sorted) :
                            SeedsKey(pool[sorted[j]]) >= SeedsKey(pool[i])})
    IN  SubSeq(sorted, 1, p) \o <<i>> \o SubSeq(sorted, p + 1, Len(sorted))

\* filtered_results.sort(key=lambda x: x.get('seeds', 0), reverse=True)
RECURSIVE SortBySeeds(_, _)
SortBySeeds(pool, idxs) ==
    IF idxs = <<>> THEN <<>>
    ELSE InsertBySeeds(pool, SortBySeeds(pool, SubSeq(idxs, 1, Len(idxs) - 1)),
                       idxs[Len(idxs)])

\* an adapter that raises takes the other adapter's results with it
AllResultsOrNothing(answer1337x, answerWsm) ==
    IF answer1337x.raised \/ answerWsm.raised THEN <<>>
    ELSE answer1337x.results \o answerWsm.results

\* all_results after both adapters were asked: a raising adapter adds nothing
AllResults(answer1337x, answerWsm) ==
    (IF answer1337x.raised THEN <<>> ELSE answer1337x.results)
        \o (IF answerWsm.raised THEN <<>> ELSE answerWsm.results)

\* the blacklist test is dropped
NotBlacklistedNever(r, bl) == TRUE

\* r.get('hash') not in self.blacklist
NotBlacklisted(r, bl) == Get(r, "hash", None) \notin bl

\* search_torrents from line 118 on: positions of the pool, in return order
SearchPositions(pool, quality, min_size_gb, max_size_gb, bl) ==
    LET filtered == FilterResults(pool, quality, min_size_gb, max_size_gb)
        allowed == SelectSeq(filtered, LAMBDA i : NotBlacklisted(pool[i], bl))
    IN  SortBySeeds(pool, allowed)

\* the list search_torrents returns
RecordsAt(pool, positions) == [k \in 1..Len(positions) |-> pool[positions[k]]]

(***************************************************************************)
(* TorrentManager._should_retry_torrent.                                   *)
(***************************************************************************)
\* the stall test without the speed condition
IsStalledAnySpeed(state, dlspeed) == Contains(state, "stalled")

\* 'stalled' in state and dlspeed == 0
IsStalled(state, dlspeed) == Contains(state, "stalled") /\ dlspeed = 0

ShouldRetryTorrent(torrent) ==
    LET state == Lower(Get(torrent, "state", ""))
        dlspeed == Get(torrent, "dlspeed", 0)
        num_seeds == Get(torrent, "num_seeds", 0)
    IN  IF Contains(state, "error") \/ Contains(state, "missing") THEN TRUE
        ELSE IF IsStalled(state, dlspeed) THEN TRUE
        ELSE IF num_seeds < MIN_SEEDS THEN TRUE
        ELSE IF dlspeed > 0 /\ dlspeed < MIN_DOWNLOAD_SPEED_KB * 1024 THEN TRUE
        ELSE FALSE

(***************************************************************************)
(* The download client (qbittorrent_client.py) as the core sees it.        *)
(***************************************************************************)
\* one entry of QBittorrentClient.get_all_torrents
Torrent(h, status) ==
    [hash |-> h, name |-> "Movie X", state |-> status.state,
     dlspeed |-> status.dlspeed, num_seeds |-> status.num_seeds]

Healthy == [state |-> "downloading", dlspeed |-> 20480, num_seeds |-> 5]
Errored == [state |-> "error", dlspeed |-> 0, num_seeds |-> 0]
Statuses == {Healthy, Errored}

\* speeds and seed counts around the thresholds
Speeds == {0, 1, MIN_DOWNLOAD_SPEED_KB * 1024 - 1, MIN_DOWNLOAD_SPEED_KB * 1024,
           MIN_DOWNLOAD_SPEED_KB * 1024 + 1}
SeedCounts == {0, MIN_SEEDS, MIN_SEEDS + 4}
ObservedTorrents ==
    {Torrent(H1, [state |-> st, dlspeed |-> sp, num_seeds |-> n]) :
        st \in StateLabels, sp \in Speeds, n \in SeedCounts}

HashesOf(torrents) == {torrents[i].hash : i \in 1..Len(torrents)}

\* the torrent a magnet link names, as qBittorrent resolves it (hex or base32 btih)
ClientInfoHash(magnet) ==
    CASE magnet = M1 -> H1
      [] magnet = M1Base32 -> H1
      [] magnet = M2 -> H2
      [] magnet = M2Upper -> H2
      [] magnet = M3 -> H3
      [] OTHER -> None

\* the client's torrents at the start: distinct hashes, at most MaxTorrents
InitialClients ==
    {c \in SeqsUpTo({Torrent(h, st) : h \in {H1, H2}, st \in Statuses}, MaxTorrents) :
        \A i, j \in 1..Len(c) : i # j => c[i].hash # c[j].hash}

(***************************************************************************)
(* Values of the variables a specification does not use.                   *)
(***************************************************************************)
NoCall == [called |-> FALSE]
NoBest == [chosen |-> FALSE]
NoEntry == [started |-> FALSE]

MonitorAtRest ==
    /\ mpc = "idle" /\ ticks = 0 /\ tickList = <<>> /\ idx = 1
    /\ best = NoBest /\ cur = NoEntry /\ evaluated = 0
    /\ userRemoved = {} /\ removals = 0

StoresEmpty ==
    /\ blacklistFile = blacklist
    /\ history = <<>> /\ historyFile = <<>>

\* no loop thread, no request served, no add_torrent call, no store operation yet
NoThread == 0
NoReply == [served |-> FALSE]
NoOp == [done |-> FALSE]
ServerAtRest ==
    /\ monitoring_active = FALSE /\ monitoring_thread = NoThread
    /\ loops = <<>> /\ starting = <<>> /\ reply = NoReply
    /\ writers = <<>> /\ clock = 0 /\ call = NoCall /\ lastOp = NoOp

SearchAtRest == searchIn = NoCall /\ searchIdx = <<>> /\ searchOut = <<>>
RetryAtRest == retryArg = NoCall /\ retryOut = FALSE

(***************************************************************************)
(* SpecSearch: search_torrents as a function of the adapters' answers, the *)
(* filter arguments and the blacklist.                                     *)
(***************************************************************************)
Qualities == {"", "1080p", "720p"}
\* <<min_size_gb, max_size_gb>>: the defaults, a minimum of 1.0 GB, and 1.0 to 1.2 GB
SizeRanges == {<<0, Inf>>, <<10, Inf>>, <<10, 12>>}
LoadedBlacklists == {{}, {H1}, {H1, H2}}

InitSearch ==
    /\ blacklist \in LoadedBlacklists
    /\ StoresEmpty
    /\ client = <<>>
    /\ MonitorAtRest
    /\ RetryAtRest
    /\ ServerAtRest
    /\ \E a \in Answers1337x(MaxResults), b \in AnswersWatchSoMuch(MaxResults),
          q \in Qualities, range \in SizeRanges :
            searchIn = [answer1337x |-> a, answerWsm |-> b, quality |-> q,
                        min_size_gb |-> range[1], max_size_gb |-> range[2]]
    /\ searchIdx = <<>> /\ searchOut = <<>>
    /\ phase = "ready"

\* a search that also puts the hashes of the records it returns on the blacklist
SearchTorrentsBlacklisting ==
    /\ phase = "ready"
    /\ LET pool == AllResults(searchIn.answer1337x, searchIn.answerWsm)
           positions == SearchPositions(pool, searchIn.quality, searchIn.min_size_gb,
                                        searchIn.max_size_gb, blacklist)
       IN  /\ searchIdx' = positions
           /\ searchOut' = RecordsAt(pool, positions)
           /\ blacklist' = blacklist \cup
                            {Get(pool[positions[k]], "hash", None) : k \in 1..Len(positions)}
    /\ phase' = "done"
    /\ UNCHANGED <<blacklistFile, history, historyFile, client, mpc, ticks,
                   tickList, idx, best, cur, evaluated, userRemoved, removals, searchIn,
                   retryArg, retryOut>>
    /\ UNCHANGED serverVars

\* TorrentManager.search_torrents(query, quality, min_size_gb, max_size_gb)
SearchTorrents ==
    /\ phase = "ready"
    /\ LET pool == AllResults(searchIn.answer1337x, searchIn.answerWsm)
           positions == SearchPositions(pool, searchIn.quality, searchIn.min_size_gb,
                                        searchIn.max_size_gb, blacklist)
       IN  /\ searchIdx' = positions
           /\ searchOut' = RecordsAt(pool, positions)
    /\ phase' = "done"
    /\ UNCHANGED <<blacklist, blacklistFile, history, historyFile, client, mpc, ticks,
                   tickList, idx, best, cur, evaluated, userRemoved, removals, searchIn,
                   retryArg, retryOut>>
    /\ UNCHANGED serverVars

NextSearch == SearchTorrents

SpecSearch == InitSearch /\ [][NextSearch]_vars

(***************************************************************************)
(* SpecRetry: _should_retry_torrent as a function of the observed status.  *)
(***************************************************************************)
InitRetry ==
    /\ blacklist = {}
    /\ StoresEmpty
    /\ client = <<>>
    /\ MonitorAtRest
    /\ SearchAtRest
    /\ ServerAtRest
    /\ retryArg \in ObservedTorrents
    /\ retryOut = FALSE
    /\ phase = "ready"

\* TorrentManager._should_retry_torrent(torrent)
ShouldRetry ==
    /\ phase = "ready"
    /\ retryOut' = ShouldRetryTorrent(retryArg)
    /\ phase' = "done"
    /\ UNCHANGED <<blacklist, blacklistFile, history, historyFile, client, mpc, ticks,
                   tickList, idx, best, cur, evaluated, userRemoved, removals, searchIn,
                   searchIdx, searchOut, retryArg>>
    /\ UNCHANGED serverVars

NextRetry == ShouldRetry

SpecRetry == InitRetry /\ [][NextRetry]_vars

(***************************************************************************)
(* Spec: the monitor tick (monitor_and_manage_torrents) with the           *)
(* replacement step, running beside user requests on the blacklist.        *)
(***************************************************************************)
\* what the monitor did for the torrent the loop is at
NewEntry(torrent, condemned) ==
    [started |-> TRUE, hash |-> torrent.hash, condemned |-> condemned,
     blacklisted |-> FALSE, persisted |-> FALSE, deletes |-> <<>>,
     searched |-> FALSE, sawBlacklisted |-> FALSE, sawUserRemoved |-> FALSE,
     candidates |-> <<>>,
     submitted |-> <<>>, recorded |-> 0, done |-> ~condemned]

\* the records the sources hold for the name of a condemned torrent
Alternatives1337x ==
    {r \in Records1337x : r.name \in {"Show S01E01 1080p", "Show 720p HDTV", "Show 1080p x264"}}
AlternativesWatchSoMuch ==
    {r \in RecordsWatchSoMuch : r.name \in {"Show 1080p WEB", "Show 1080P.MP4"}}
AlternativeAnswers1337x ==
    {Raised} \cup {Returned(rs) : rs \in SeqsUpTo(Alternatives1337x, MaxAlternatives)}
AlternativeAnswersWatchSoMuch ==
    {Raised} \cup {Returned(rs) : rs \in SeqsUpTo(AlternativesWatchSoMuch, MaxAlternatives)}

Init ==
    /\ blacklist \in {{}, {H2}}
    /\ StoresEmpty
    /\ client \in InitialClients
    /\ MonitorAtRest
    /\ SearchAtRest
    /\ RetryAtRest
    /\ ServerAtRest
    /\ phase = "ready"

\* line 278: torrents = self.qb_client.get_all_torrents(); an unreachable client
\* makes QBittorrentClient.get_all_torrents return []
TickStart ==
    /\ mpc = "idle"
    /\ ticks < MaxTicks
    /\ ticks' = ticks + 1
    /\ tickList' \in {client, <<>>}
    /\ idx' = 1
    /\ cur' = NoEntry
    /\ evaluated' = 0
    /\ userRemoved' = {}
    /\ best' = NoBest
    /\ mpc' = "loop"
    /\ UNCHANGED <<blacklist, blacklistFile, history, historyFile, client, removals,
                   searchIn, searchIdx, searchOut, retryArg, retryOut, phase>>
    /\ UNCHANGED serverVars

\* lines 280-289: the next torrent of the list is evaluated
Evaluate ==
    /\ mpc = "loop"
    /\ idx <= Len(tickList)
    /\ LET torrent == tickList[idx]
           condemned == ShouldRetryTorrent(torrent)
       IN  /\ cur' = NewEntry(torrent, condemned)
           /\ IF condemned
              THEN mpc' = "blacklist" /\ idx' = idx
              ELSE mpc' = "loop" /\ idx' = idx + 1
    /\ evaluated' = evaluated + 1
    /\ UNCHANGED <<blacklist, blacklistFile, history, historyFile, client, ticks,
                   tickList, best, userRemoved, removals, searchIn, searchIdx,
                   searchOut, retryArg, retryOut, phase>>
    /\ UNCHANGED serverVars

\* the for-loop is exhausted: the tick ends
TickEnd ==
    /\ mpc = "loop"
    /\ idx > Len(tickList)
    /\ mpc' = "idle"
    /\ UNCHANGED <<blacklist, blacklistFile, history, historyFile, client, ticks,
                   tickList, idx, best, cur, evaluated, userRemoved, removals,
                   searchIn, searchIdx, searchOut, retryArg, retryOut, phase>>
    /\ UNCHANGED serverVars

\* the hash is not added
BlacklistAddForgotten(bl, torrent_hash) == bl

\* the hash replaces the hashes already there
BlacklistAddReplacing(bl, torrent_hash) == {torrent_hash}

\* self.blacklist.add(torrent_hash)
BlacklistAdd(bl, torrent_hash) == bl \cup {torrent_hash}

\* a removal that empties the set when the hash is absent
BlacklistDiscardOrClear(bl, torrent_hash) ==
    IF torrent_hash \in bl THEN bl \ {torrent_hash} ELSE {}

\* self.blacklist.discard(torrent_hash)
BlacklistDiscard(bl, torrent_hash) == bl \ {torrent_hash}

\* _save_blacklist: the file gets the in-memory set, or the write fails and the
\* exception is logged and swallowed
SavedBlacklists(bl, file) == {bl, file}

\* line 292: self._add_to_blacklist(torrent_hash, name)
AddToBlacklist ==
    /\ mpc = "blacklist"
    /\ LET h == tickList[idx].hash
       IN  /\ blacklist' = BlacklistAdd(blacklist, h)
           /\ blacklistFile' \in SavedBlacklists(blacklist', blacklistFile)
           /\ userRemoved' = userRemoved \ {h}
           /\ cur' = [cur EXCEPT !.blacklisted = (h \in blacklist'),
                                 !.persisted = (h \in blacklistFile')]
    /\ mpc' = "delete"
    /\ UNCHANGED <<history, historyFile, client, ticks, tickList, idx, best,
                   evaluated, removals, searchIn, searchIdx, searchOut, retryArg,
                   retryOut, phase>>
    /\ UNCHANGED serverVars

\* line 295: the delete_files argument of the monitor's delete
MonitorDeleteFiles == FALSE

\* client.torrents_delete(torrent_hashes=h)
WithoutTorrent(torrents, h) == SelectSeq(torrents, LAMBDA t : t.hash # h)

\* line 295: self.qb_client.delete_torrent(torrent_hash, delete_files=False); the
\* client removes the torrent, or the call raises and the except of line 300 ends
\* the tick
DeleteTorrent ==
    /\ mpc = "delete"
    /\ LET h == tickList[idx].hash
       IN \E ok \in BOOLEAN :
            /\ cur' = [cur EXCEPT !.deletes =
                          Append(@, [delete_files |-> MonitorDeleteFiles,
                                     blacklisted |-> h \in blacklist,
                                     userRemoved |-> h \in userRemoved,
                                     ok |-> ok])]
            /\ IF ok
               THEN client' = WithoutTorrent(client, h) /\ mpc' = "replace"
               ELSE client' = client /\ mpc' = "idle"
    /\ UNCHANGED <<blacklist, blacklistFile, history, historyFile, ticks, tickList,
                   idx, best, evaluated, userRemoved, removals, searchIn, searchIdx,
                   searchOut, retryArg, retryOut, phase>>
    /\ UNCHANGED serverVars

\* lines 338-341: alternatives = [r for r in results if r.get('hash') not in blacklist]
Alternatives(results, bl) == SelectSeq(results, LAMBDA r : NotBlacklisted(r, bl))

\* a candidate is submitted whether or not there is one
SubmitsAlways(alternatives) == TRUE

\* the top candidate is submitted whether or not it has a magnet
SubmitsAnyCandidate(alternatives) == alternatives # <<>>

\* lines 343-353: if alternatives: best = alternatives[0]; if best.get('magnet_link')
Submits(alternatives) ==
    /\ alternatives # <<>>
    /\ Get(alternatives[1], "magnet_link", None) \notin {None, ""}

\* lines 298, 330-362: _find_and_add_alternative up to the decision to submit; the
\* search is search_torrents(query=name, sources=['1337x', 'watchsomuch']) with the
\* default filters
FindAlternative ==
    /\ mpc = "replace"
    /\ \E a \in AlternativeAnswers1337x, b \in AlternativeAnswersWatchSoMuch :
         LET pool == AllResults(a, b)
             results == RecordsAt(pool, SearchPositions(pool, "", 0, Inf, blacklist))
             alternatives == Alternatives(results, blacklist)
         IN  /\ cur' = [cur EXCEPT !.searched = TRUE,
                                   !.sawBlacklisted = (tickList[idx].hash \in blacklist),
                                   !.sawUserRemoved = (tickList[idx].hash \in userRemoved),
                                   !.candidates = alternatives,
                                   !.done = ~Submits(alternatives)]
             /\ IF Submits(alternatives)
                THEN /\ best' = IF alternatives # <<>> THEN alternatives[1] ELSE NoBest
                     /\ mpc' = "submit" /\ idx' = idx
                ELSE best' = NoBest /\ mpc' = "loop" /\ idx' = idx + 1
    /\ UNCHANGED <<blacklist, blacklistFile, history, historyFile, client, ticks,
                   tickList, evaluated, userRemoved, removals, searchIn, searchIdx,
                   searchOut, retryArg, retryOut, phase>>
    /\ UNCHANGED serverVars

\* the entry is appended twice
AddToHistoryTwice(hist, entry) == Append(Append(hist, entry), entry)

\* the entry is put in front of the entries already there
AddToHistoryInFront(hist, entry) == <<entry>> \o hist

\* _add_to_history, line 435: self.history.append(entry)
AddToHistory(hist, entry) == Append(hist, entry)

\* _save_history: the file gets the in-memory list, or the write fails
SavedHistories(h, file) == {h, file}

\* lines 208-214: the entry add_torrent appends (added_at is not modelled here)
HistoryEntry(torrent_hash, name, source, magnet_link) ==
    [hash |-> torrent_hash, name |-> name, source |-> source, magnet |-> magnet_link]

\* what the client raised leaves _find_and_add_alternative and ends the tick at the
\* except of line 300
AfterAlternativeEscaping(raised) == IF raised THEN "idle" ELSE "loop"

\* lines 364-365: the except of _find_and_add_alternative catches what the search or
\* the submission raised, and the for loop of line 280 goes on with the next torrent
AfterAlternative(raised) == "loop"

\* lines 354-358 and add_torrent (198-226) with QBittorrentClient.add_torrent
\* (94-114): torrents_add answers 'Ok.' and the torrent joins the client's list as
\* the latest, or it answers otherwise (the torrent is already there, or the add is
\* refused), or the client raises; the exception is caught at line 364
SubmitAlternative ==
    /\ mpc = "submit"
    /\ LET magnet == Get(best, "magnet_link", None)
           h == ClientInfoHash(magnet)
       IN  \E answer \in {"Ok.", "Fails.", "raise"} :
             /\ IF answer = "Ok." /\ h # None /\ h \notin HashesOf(client)
                THEN /\ client' = Append(client, Torrent(h, Healthy))
                     /\ history' = AddToHistory(history,
                            HistoryEntry(client'[Len(client')].hash,
                                         IF Get(best, "name", "") # "" THEN best.name
                                         ELSE client'[Len(client')].name,
                                         Get(best, "source", "unknown"), magnet))
                     /\ historyFile' \in SavedHistories(history', historyFile)
                ELSE UNCHANGED <<client, history, historyFile>>
             /\ cur' = [cur EXCEPT
                           !.submitted = Append(@, magnet),
                           !.recorded = @ + (Len(history') - Len(history)),
                           !.done = TRUE]
             /\ mpc' = AfterAlternative(answer = "raise")
    /\ best' = NoBest
    /\ idx' = idx + 1
    /\ UNCHANGED <<blacklist, blacklistFile, ticks, tickList, evaluated, userRemoved,
                   removals, searchIn, searchIdx, searchOut, retryArg, retryOut, phase>>
    /\ UNCHANGED serverVars

\* DELETE /api/blacklist/<hash>: TorrentManager.remove_from_blacklist, from a
\* request thread, at any moment of a tick
UserRemoveFromBlacklist ==
    /\ removals < MaxRemovals
    /\ removals' = removals + 1
    /\ \E h \in Hashes :
        /\ blacklist' = BlacklistDiscard(blacklist, h)
        /\ blacklistFile' \in SavedBlacklists(blacklist', blacklistFile)
        /\ userRemoved' = IF mpc = "idle" THEN userRemoved ELSE userRemoved \cup {h}
    /\ UNCHANGED <<history, historyFile, client, mpc, ticks, tickList, idx, best,
                   cur, evaluated, searchIn, searchIdx, searchOut, retryArg, retryOut,
                   phase>>
    /\ UNCHANGED serverVars

Next ==
    \/ TickStart
    \/ Evaluate
    \/ TickEnd
    \/ AddToBlacklist
    \/ DeleteTorrent
    \/ FindAlternative
    \/ SubmitAlternative
    \/ UserRemoveFromBlacklist

Spec == Init /\ [][Next]_vars

(***************************************************************************)
(* SpecLoop: the monitoring control of server.py.  Request threads serve    *)
(* start, stop and status; every started thread runs monitor_torrents_loop. *)
(* The tick itself is the matter of Spec: here it returns or raises.        *)
(***************************************************************************)
\* loop threads created in one behaviour
MaxLoops == 2
\* requests served in one behaviour
MaxRequests == 4

MONITORING_INTERVAL == 60

\* a thread of monitor_torrents_loop: where it is, whether its last tick raised,
\* and the seconds of the sleep it is in or was last in
NewLoop == [pc |-> "top", failed |-> FALSE, slept |-> 0]
\* threading.Thread(...).start() raised: the thread never runs
DeadLoop == [pc |-> "unstarted", failed |-> FALSE, slept |-> 0]

LoopIds == 1..Len(loops)

\* requests served so far
Served == IF reply = NoReply THEN 0 ELSE reply.n

\* jsonify(...), status
Reply(op, code, body) == [served |-> TRUE, n |-> Served + 1, op |-> op, code |-> code,
                          body |-> body]

InitLoop ==
    /\ blacklist = {}
    /\ StoresEmpty
    /\ client = <<>>
    /\ MonitorAtRest
    /\ SearchAtRest
    /\ RetryAtRest
    /\ ServerAtRest
    /\ phase = "ready"

\* requests served or being served
Requests == Served + Len(starting)

\* the test of line 155 never answers 'already active'
AlreadyActiveNever(active) == FALSE

\* line 155: if monitoring_active
AlreadyActive(active) == active

\* the sequence without its i-th element
Without(seq, i) == SubSeq(seq, 1, i - 1) \o SubSeq(seq, i + 1, Len(seq))

\* start_monitoring, lines 154-156: if monitoring_active: return 'already active'
StartCheck ==
    /\ Requests < MaxRequests
    /\ IF AlreadyActive(monitoring_active)
       THEN /\ reply' = Reply("start", 200, [message |-> "Monitoring already active"])
            /\ UNCHANGED starting
       ELSE /\ Len(loops) + Len(starting) < MaxLoops
            /\ starting' = Append(starting, monitoring_active)
            /\ UNCHANGED reply
    /\ UNCHANGED <<monitoring_active, monitoring_thread, loops>>

\* start_monitoring, lines 158-172: the flag is set, the thread created and started;
\* Thread.start() can raise, which the except of line 170 answers with 500
StartSpawn ==
    /\ \E i \in 1..Len(starting) : starting' = Without(starting, i)
    /\ monitoring_active' = TRUE
    /\ monitoring_thread' = Len(loops) + 1
    /\ \E started \in BOOLEAN :
        IF started
        THEN /\ loops' = Append(loops, NewLoop)
             /\ reply' = Reply("start", 200, [success |-> TRUE,
                                               message |-> "Monitoring started"])
        ELSE /\ loops' = Append(loops, DeadLoop)
             /\ reply' = Reply("start", 500, [error |-> "can't start new thread"])

\* stop_monitoring, lines 176-185
StopMonitoring ==
    /\ Requests < MaxRequests
    /\ monitoring_active' = FALSE
    /\ reply' = Reply("stop", 200, [success |-> TRUE, message |-> "Monitoring stopped"])
    /\ UNCHANGED <<monitoring_thread, loops, starting>>

\* monitoring_status, lines 193-198
MonitoringStatus ==
    /\ Requests < MaxRequests
    /\ reply' = Reply("status", 200, [success |-> TRUE, active |-> monitoring_active])
    /\ UNCHANGED <<monitoring_active, monitoring_thread, loops, starting>>

\* the loop is left as soon as a tick has raised
AfterTickExitsOnFailure(raised) == IF raised THEN "exited" ELSE "sleep"

\* lines 236-241: after the tick, time.sleep(Config.MONITORING_INTERVAL), in the try
\* when the tick returned and in the except when it raised
AfterTick(raised) == "sleep"

\* the loop never looks at the flag
LoopConditionAlways(active) == TRUE

\* line 235: while monitoring_active
LoopCondition(active) == active

\* line 235, evaluated by thread t
LoopCheck(t) ==
    /\ loops[t].pc = "top"
    /\ loops' = [loops EXCEPT ![t].pc =
                    IF LoopCondition(monitoring_active) THEN "tick" ELSE "exited"]
    /\ UNCHANGED <<monitoring_active, monitoring_thread, starting, reply>>

\* line 237: torrent_manager.monitor_and_manage_torrents() returns or raises, then
\* the sleep of line 238 or 241 begins
LoopTick(t) ==
    /\ loops[t].pc = "tick"
    /\ \E raised \in BOOLEAN :
        loops' = [loops EXCEPT ![t] = [pc |-> AfterTick(raised), failed |-> raised,
                                       slept |-> MONITORING_INTERVAL]]
    /\ UNCHANGED <<monitoring_active, monitoring_thread, starting, reply>>

\* the sleep is over: back to line 235
LoopWake(t) ==
    /\ loops[t].pc = "sleep"
    /\ loops' = [loops EXCEPT ![t].pc = "top"]
    /\ UNCHANGED <<monitoring_active, monitoring_thread, starting, reply>>

\* one step of thread t of monitor_torrents_loop
LoopStep(t) == LoopCheck(t) \/ LoopTick(t) \/ LoopWake(t)

\* what the control of the monitoring leaves alone
LoopFrame ==
    UNCHANGED <<blacklist, blacklistFile, history, historyFile, client, mpc, ticks,
                tickList, idx, best, cur, evaluated, userRemoved, removals, searchIn,
                searchIdx, searchOut, retryArg, retryOut, phase, writers, clock, call,
                lastOp>>

NextLoop ==
    \/ StartCheck /\ LoopFrame
    \/ StartSpawn /\ LoopFrame
    \/ StopMonitoring /\ LoopFrame
    \/ MonitoringStatus /\ LoopFrame
    \/ \E t \in LoopIds : LoopCheck(t) /\ LoopFrame
    \/ \E t \in LoopIds : LoopTick(t) /\ LoopFrame
    \/ \E t \in LoopIds : LoopWake(t) /\ LoopFrame

SpecLoop == InitLoop /\ [][NextLoop]_vars

\* every started thread keeps running (the scheduler serves it, a tick and a sleep end)
LoopFairness == \A t \in 1..MaxLoops : WF_vars(t \in LoopIds /\ LoopStep(t) /\ LoopFrame)

SpecLoopFair == SpecLoop /\ LoopFairness

(***************************************************************************)
(* The persisted stores as documents.  blacklist.json holds an object with *)
(* the list of hashes, history.json holds the list of entries; a file that  *)
(* is missing, empty or garbled cannot be parsed.                           *)
(***************************************************************************)
\* a file json.load raises on (or that does not exist)
Unreadable == [unreadable |-> TRUE]

\* list(self.blacklist): the hashes of the set, each once, in some order
ListsOf(S) ==
    {f \in [1..Cardinality(S) -> S] : \A i, j \in 1..Cardinality(S) : i # j => f[i] # f[j]}

\* json.dump({'hashes': list(self.blacklist)}, f): the documents it can write
DumpBlacklist(bl) == {[hashes |-> l] : l \in ListsOf(bl)}

\* every load yields the empty set
LoadBlacklistEmpty(doc) == {}

\* _load_blacklist: set(data.get('hashes', [])), and set() when the file is missing
\* or cannot be parsed
LoadBlacklist(doc) ==
    IF "hashes" \in DOMAIN doc THEN {doc.hashes[i] : i \in 1..Len(doc.hashes)} ELSE {}

\* json.dump(self.history, f)
DumpHistory(h) == [entries |-> h]

\* _load_history: whatever json.load(f) returns (the list of entries, or the object
\* when the document holds an object), and [] when the file is missing or cannot be
\* parsed
LoadHistory(doc) ==
    IF doc = Unreadable THEN <<>>
    ELSE IF "entries" \in DOMAIN doc THEN doc.entries
    ELSE doc

(***************************************************************************)
(* SpecBlacklist: _add_to_blacklist, remove_from_blacklist and a reload of  *)
(* the blacklist (a new TorrentManager), one after the other.  A write can  *)
(* fail, which _save_blacklist logs and swallows.                           *)
(***************************************************************************)
\* blacklist operations in one behaviour
MaxOps == 3

\* operations done so far
OpsDone == IF lastOp = NoOp THEN 0 ELSE lastOp.n

\* _save_blacklist: the document in the file afterwards, and whether it was written
SaveBlacklist(bl, file) ==
    {[file |-> d, wrote |-> TRUE] : d \in DumpBlacklist(bl)}
        \cup {[file |-> file, wrote |-> FALSE], [file |-> Unreadable, wrote |-> FALSE]}

InitBlacklist ==
    /\ blacklist \in {{}, {H1}, {H1, H2}}
    /\ blacklistFile \in DumpBlacklist(blacklist) \cup {Unreadable}
    /\ history = <<>> /\ historyFile = <<>>
    /\ client = <<>>
    /\ MonitorAtRest
    /\ SearchAtRest
    /\ RetryAtRest
    /\ ServerAtRest
    /\ phase = "ready"

\* what the blacklist operations leave alone
BlacklistFrame ==
    UNCHANGED <<history, historyFile, client, mpc, ticks, tickList, idx, best, cur,
                evaluated, userRemoved, removals, searchIn, searchIdx, searchOut,
                retryArg, retryOut, phase, monitoring_active, monitoring_thread, loops,
                starting, reply, writers, clock, call>>

\* TorrentManager._add_to_blacklist(torrent_hash)
AddToBlacklistOp ==
    /\ OpsDone < MaxOps
    /\ \E h \in Hashes :
      \E saved \in SaveBlacklist(BlacklistAdd(blacklist, h), blacklistFile) :
        /\ blacklist' = BlacklistAdd(blacklist, h)
        /\ blacklistFile' = saved.file
        /\ lastOp' = [done |-> TRUE, n |-> OpsDone + 1, op |-> "add", hash |-> h,
                      wrote |-> saved.wrote, raised |-> FALSE, before |-> blacklist,
                      reloaded |-> FALSE]
    /\ BlacklistFrame

\* TorrentManager.remove_from_blacklist(torrent_hash)
RemoveFromBlacklistOp ==
    /\ OpsDone < MaxOps
    /\ \E h \in Hashes :
      \E saved \in SaveBlacklist(BlacklistDiscard(blacklist, h), blacklistFile) :
        /\ blacklist' = BlacklistDiscard(blacklist, h)
        /\ blacklistFile' = saved.file
        /\ lastOp' = [done |-> TRUE, n |-> OpsDone + 1, op |-> "remove", hash |-> h,
                      wrote |-> saved.wrote, raised |-> FALSE, before |-> blacklist,
                      reloaded |-> FALSE]
    /\ BlacklistFrame

\* a new TorrentManager: self.blacklist = self._load_blacklist()
ReloadBlacklist ==
    /\ lastOp # NoOp
    /\ ~lastOp.reloaded
    /\ blacklist' = LoadBlacklist(blacklistFile)
    /\ lastOp' = [lastOp EXCEPT !.reloaded = TRUE]
    /\ UNCHANGED blacklistFile
    /\ BlacklistFrame

NextBlacklist ==
    \/ AddToBlacklistOp
    \/ RemoveFromBlacklistOp
    \/ ReloadBlacklist

SpecBlacklist == InitBlacklist /\ [][NextBlacklist]_vars

(***************************************************************************)
(* SpecStores: the monitor thread and a request thread each mutate a store *)
(* and save it, at the same time.  No lock is taken anywhere in             *)
(* torrent_manager.py, so the steps of the two saves interleave freely:     *)
(* the in-memory mutation, open(file, 'w') which truncates, the evaluation  *)
(* of the data to dump, and the write that reaches the file at close.       *)
(***************************************************************************)
Writers == {"monitor", "user"}

\* entries the history holds at the start
MaxLoaded == 1

\* a thread about to run the given mutation of the given store
Writer(store, op, arg) ==
    [pc |-> "mutate", store |-> store, op |-> op, arg |-> arg, snapshot |-> Unreadable]

\* entries of the history of the model
Entry1 == HistoryEntry(H1, "Show S01E01 1080p", "1337x", M1)
Entry2 == HistoryEntry(H2, "Show S01E01 720p", "watchsomuch", M2)
Entry3 == HistoryEntry(H3, "Show 1080p WEB", "watchsomuch", M3)

\* the number of items of a document, to which its length in bytes is proportional
DocSize(doc) ==
    IF "hashes" \in DOMAIN doc THEN Len(doc.hashes)
    ELSE IF "entries" \in DOMAIN doc THEN Len(doc.entries)
    ELSE 0

\* the file after a handle opened before the last truncation writes its data from
\* offset 0: the data, or the data followed by the tail of a longer content
WriteOver(current, data) ==
    IF DocSize(current) > DocSize(data) THEN Unreadable ELSE data

InitStores ==
    /\ client = <<>>
    /\ MonitorAtRest
    /\ SearchAtRest
    /\ RetryAtRest
    /\ monitoring_active = TRUE /\ monitoring_thread = 1
    /\ loops = <<[pc |-> "tick", failed |-> FALSE, slept |-> 0]>>
    /\ starting = <<>> /\ reply = NoReply
    /\ clock = 0 /\ call = NoCall /\ lastOp = NoOp
    /\ phase = "ready"
    /\ \/ /\ blacklist \in {{H2}, {H2, H3}}
          /\ blacklistFile \in DumpBlacklist(blacklist)
          /\ history = <<>> /\ historyFile = DumpHistory(history)
          /\ \E added \in Hashes, removed \in Hashes :
                writers = [w \in Writers |->
                            IF w = "monitor" THEN Writer("blacklist", "add", added)
                            ELSE Writer("blacklist", "remove", removed)]
       \/ /\ blacklist = {} /\ blacklistFile \in DumpBlacklist(blacklist)
          /\ history \in SeqsUpTo({Entry3}, MaxLoaded)
          /\ historyFile = DumpHistory(history)
          /\ writers = [w \in Writers |->
                            IF w = "monitor" THEN Writer("history", "append", Entry1)
                            ELSE Writer("history", "append", Entry2)]

\* what the store operations leave alone
StoresFrame ==
    UNCHANGED <<client, mpc, ticks, tickList, idx, best, cur, evaluated, userRemoved,
                removals, searchIn, searchIdx, searchOut, retryArg, retryOut, phase,
                monitoring_active, monitoring_thread, loops, starting, reply, clock,
                call, lastOp>>

\* lines 401, 411, 435: self.blacklist.add / .discard, self.history.append
Mutate(w) ==
    /\ writers[w].pc = "mutate"
    /\ writers' = [writers EXCEPT ![w].pc = "open"]
    /\ CASE writers[w].op = "add" ->
                blacklist' = BlacklistAdd(blacklist, writers[w].arg) /\ UNCHANGED history
         [] writers[w].op = "remove" ->
                blacklist' = BlacklistDiscard(blacklist, writers[w].arg) /\ UNCHANGED history
         [] writers[w].op = "append" ->
                history' = Append(history, writers[w].arg) /\ UNCHANGED blacklist
    /\ UNCHANGED <<blacklistFile, historyFile>>
    /\ StoresFrame

\* lines 394, 428: open(file, 'w') truncates the file
OpenFile(w) ==
    /\ writers[w].pc = "open"
    /\ writers' = [writers EXCEPT ![w].pc = "snapshot"]
    /\ IF writers[w].store = "blacklist"
       THEN blacklistFile' = Unreadable /\ UNCHANGED historyFile
       ELSE historyFile' = Unreadable /\ UNCHANGED blacklistFile
    /\ UNCHANGED <<blacklist, history>>
    /\ StoresFrame

\* lines 395, 429: the data handed to json.dump is read from the in-memory store
Snapshot(w) ==
    /\ writers[w].pc = "snapshot"
    /\ \E data \in IF writers[w].store = "blacklist" THEN DumpBlacklist(blacklist)
                   ELSE {DumpHistory(history)} :
        writers' = [writers EXCEPT ![w].pc = "write", ![w].snapshot = data]
    /\ UNCHANGED <<blacklist, blacklistFile, history, historyFile>>
    /\ StoresFrame

\* the end of the with block: the data reaches the file
WriteFile(w) ==
    /\ writers[w].pc = "write"
    /\ writers' = [writers EXCEPT ![w].pc = "done"]
    /\ IF writers[w].store = "blacklist"
       THEN /\ blacklistFile' = WriteOver(blacklistFile, writers[w].snapshot)
            /\ UNCHANGED historyFile
       ELSE /\ historyFile' = WriteOver(historyFile, writers[w].snapshot)
            /\ UNCHANGED blacklistFile
    /\ UNCHANGED <<blacklist, history>>
    /\ StoresFrame

NextStores ==
    \/ \E w \in Writers : Mutate(w)
    \/ \E w \in Writers : OpenFile(w)
    \/ \E w \in Writers : Snapshot(w)
    \/ \E w \in Writers : WriteFile(w)

SpecStores == InitStores /\ [][NextStores]_vars

(***************************************************************************)
(* SpecSubmit: TorrentManager.add_torrent, called by the download route of *)
(* server.py and by the monitor's replacement step.  The logical clock      *)
(* advances by one with every step of the call and by the settle delay.     *)
(***************************************************************************)
\* add_torrent calls in one behaviour
MaxCalls == 2

\* time.sleep(2) in _set_file_priorities
SETTLE_DELAY == 2

\* the answers of the client to torrents_add: 'Ok.' for a torrent it does not hold
\* yet, 'Fails.' otherwise or when it refuses; or the call raises
ClientAnswers(torrents, magnet) ==
    IF ClientInfoHash(magnet) \notin HashesOf(torrents) \cup {None}
    THEN {"Ok.", "Fails.", "raise"}
    ELSE {"Fails.", "raise"}

\* QBittorrentClient.add_torrent: the client's list afterwards and the dict returned
ClientAddTorrent(torrents, magnet, answer) ==
    IF answer = "raise" THEN [raised |-> TRUE, torrents |-> torrents]
    ELSE IF answer = "Ok."
    THEN LET added == Append(torrents, Torrent(ClientInfoHash(magnet), Healthy))
             latest == added[Len(added)]
         IN  [raised |-> FALSE, torrents |-> added,
              result |-> [success |-> TRUE, hash |-> latest.hash, name |-> latest.name]]
    ELSE [raised |-> FALSE, torrents |-> torrents,
          result |-> [success |-> FALSE, error |-> "Failed to add torrent"]]

\* the timestamp is taken after the call has returned
StampTimeAfterReturn(after_add, returned) == returned + 1

\* line 212: datetime.now().isoformat(), evaluated after the client has added
StampTime(after_add, returned) == after_add

\* lines 208-214: the entry with its added_at
StampedEntry(entry, added_at) ==
    [k \in DOMAIN entry \cup {"added_at"} |->
        IF k = "added_at" THEN added_at ELSE entry[k]]

\* TorrentManager.add_torrent(magnet_link, source, name) called at time now: what it
\* returns or raises, the client and the history afterwards, and the time of return
AddTorrent(torrents, hist, magnet, source, name, answer, now) ==
    LET added == ClientAddTorrent(torrents, magnet, answer)
        after_add == now + 1
        returned == after_add + 1 + SETTLE_DELAY
    IN  IF added.raised
        THEN [raised |-> TRUE, success |-> FALSE, torrents |-> torrents, history |-> hist,
              returned |-> after_add]
        ELSE IF Get(added.result, "success", FALSE)
        THEN [raised |-> FALSE, success |-> TRUE, result |-> added.result,
              torrents |-> added.torrents,
              history |-> AddToHistory(hist,
                    StampedEntry(HistoryEntry(added.result.hash,
                                              IF name # "" THEN name ELSE added.result.name,
                                              source, magnet),
                                 StampTime(after_add, returned))),
              returned |-> returned]
        ELSE [raised |-> FALSE, success |-> FALSE, result |-> added.result,
              torrents |-> added.torrents, history |-> hist, returned |-> after_add]

\* the record of an add_torrent call
CallRecord(via, magnet, source, answer, outcome) ==
    [called |-> TRUE, n |-> call.n + 1, via |-> via,
     served |-> IF via = "route" THEN Served + 1 ELSE 0,
     successes |-> call.successes + (IF outcome.success THEN 1 ELSE 0),
     loaded |-> call.loaded, magnet |-> magnet, source |-> source, answer |-> answer,
     raised |-> outcome.raised, success |-> outcome.success, at |-> clock,
     returned |-> outcome.returned]

\* the magnets, sources and names of the submissions of the model
SubmittedMagnets == {M1, M2, M1Base32}
SubmittedSources == {"1337x", "unknown"}
SubmittedNames == {"", "Show S01E01 1080p"}

InitSubmit ==
    /\ blacklist = {} /\ blacklistFile = blacklist
    /\ history \in SeqsUpTo({StampedEntry(Entry3, 0)}, MaxLoaded)
    /\ historyFile = history
    /\ client \in {<<>>, <<Torrent(H2, Healthy)>>}
    /\ MonitorAtRest
    /\ SearchAtRest
    /\ RetryAtRest
    /\ monitoring_active = FALSE /\ monitoring_thread = NoThread
    /\ loops = <<>> /\ starting = <<>> /\ reply = NoReply
    /\ writers = <<>> /\ lastOp = NoOp
    /\ clock = 1
    /\ call = [called |-> FALSE, n |-> 0, successes |-> 0, loaded |-> Len(history)]
    /\ phase = "ready"

\* what a submission leaves alone
SubmitFrame ==
    UNCHANGED <<blacklist, blacklistFile, mpc, ticks, tickList, idx, best, cur,
                evaluated, userRemoved, removals, searchIn, searchIdx, searchOut,
                retryArg, retryOut, phase, monitoring_active, monitoring_thread, loops,
                starting, writers, lastOp>>

\* POST /api/download: download_torrent, lines 75-100
DownloadTorrent ==
    /\ call.n < MaxCalls
    /\ Served < MaxRequests
    /\ \E magnet \in SubmittedMagnets \cup {""}, source \in SubmittedSources,
          name \in SubmittedNames :
        IF magnet = ""
        THEN /\ reply' = Reply("download", 400, [error |-> "Magnet link is required"])
             /\ UNCHANGED <<client, history, historyFile, clock, call>>
        ELSE \E answer \in ClientAnswers(client, magnet) :
             LET outcome == AddTorrent(client, history, magnet, source, name, answer, clock)
             IN  /\ client' = outcome.torrents
                 /\ history' = outcome.history
                 /\ historyFile' \in IF outcome.success
                                     THEN SavedHistories(history', historyFile)
                                     ELSE {historyFile}
                 /\ clock' = outcome.returned + 1
                 /\ call' = CallRecord("route", magnet, source, answer, outcome)
                 /\ reply' = IF outcome.raised
                             THEN Reply("download", 500, [error |-> "add failed"])
                             ELSE Reply("download", 200,
                                        [success |-> TRUE,
                                         hash |-> Get(outcome.result, "hash", None),
                                         message |-> "Torrent added successfully"])
    /\ SubmitFrame

\* _find_and_add_alternative, lines 353-365: the monitor's call of add_torrent, whose
\* exception is caught and logged
MonitorAddTorrent ==
    /\ call.n < MaxCalls
    /\ \E magnet \in SubmittedMagnets, source \in SubmittedSources :
       \E answer \in ClientAnswers(client, magnet) :
         LET outcome == AddTorrent(client, history, magnet, source, "Show S01E01 1080p",
                                   answer, clock)
         IN  /\ client' = outcome.torrents
             /\ history' = outcome.history
             /\ historyFile' \in IF outcome.success
                                 THEN SavedHistories(history', historyFile)
                                 ELSE {historyFile}
             /\ clock' = outcome.returned + 1
             /\ call' = CallRecord("monitor", magnet, source, answer, outcome)
    /\ UNCHANGED reply
    /\ SubmitFrame

NextSubmit ==
    \/ DownloadTorrent
    \/ MonitorAddTorrent

SpecSubmit == InitSubmit /\ [][NextSubmit]_vars

(***************************************************************************)
(* SpecPriority: add_torrent with its file-priority step.  The client's     *)
(* torrents carry their files here; a file is a dict with name, index and   *)
(* priority (0 skip, 1 normal, 6 high).  After the settle delay the client  *)
(* reports the files of the new torrent, or none because the metadata has   *)
(* not arrived, or the fetch fails; the priority call succeeds or raises.   *)
(***************************************************************************)
\* files of the torrent a call adds
MaxFiles == 2

\* one entry of QBittorrentClient.get_torrent_files
File(name, index, priority) == [name |-> name, index |-> index, priority |-> priority]

\* the files of a torrent just added: indexed from 0, all at normal priority
Payloads ==
    {[i \in 1..Len(names) |-> File(names[i], i - 1, 1)] :
        names \in SeqsUpTo(PayloadFileNames, MaxFiles)}

\* a torrent of the client together with its files
WithFiles(torrent, files) ==
    [k \in DOMAIN torrent \cup {"files"} |-> IF k = "files" THEN files ELSE torrent[k]]

\* a torrent the client holds from the start: one file skipped, one at high priority
Seeding ==
    WithFiles(Torrent(H2, Healthy), <<File("old.nfo", 0, 0), File("old.mkv", 1, 6)>>)

\* the files the client holds for a hash
TorrentFiles(torrents, h) ==
    IF h \in HashesOf(torrents)
    THEN Get(torrents[CHOOSE i \in 1..Len(torrents) : torrents[i].hash = h], "files", <<>>)
    ELSE <<>>

\* what the client reports for the files of a torrent
Views == {"resolved", "pending", "failed"}

\* QBittorrentClient.get_torrent_files: the files, [] while the metadata is pending,
\* and [] when the call fails (the exception is logged at lines 213-215)
GetTorrentFiles(torrents, h, view) ==
    IF view = "resolved" THEN TorrentFiles(torrents, h) ELSE <<>>

\* line 246: any(ext in file_name for ext in Config.EXCLUDED_EXTENSIONS)
IsExcluded(file_name) ==
    AnyIn(EXCLUDED_EXTENSIONS, LAMBDA ext : Contains(file_name, ext))

\* line 251: any(ext in file_name for ext in Config.ALLOWED_VIDEO_EXTENSIONS)
IsVideo(file_name) ==
    AnyIn(ALLOWED_VIDEO_EXTENSIONS, LAMBDA ext : Contains(file_name, ext))

\* every file with an excluded extension is skipped, video or not
ShouldSkipExcluded(file_name) == IsExcluded(file_name)

\* line 255: should_skip and not is_video
ShouldSkip(file_name) == IsExcluded(file_name) /\ ~IsVideo(file_name)

\* lines 238-258: skip_files, the index of every file to skip, in order; the name
\* is lower-cased at line 242
SkipFiles(files) ==
    LET at == {i \in 1..Len(files) : ShouldSkip(LowerByChar(Get(files[i], "name", "")))}
    IN  [k \in 1..Cardinality(at) |->
            files[CHOOSE i \in at : Cardinality({j \in at : j < i}) = k - 1].index]

\* client.torrents_file_priority(torrent_hash, file_ids, priority)
SetFilePriority(files, file_ids, priority) ==
    [i \in 1..Len(files) |->
        IF \E k \in 1..Len(file_ids) : file_ids[k] = files[i].index
        THEN [files[i] EXCEPT !.priority = priority]
        ELSE files[i]]

\* a failing priority call leaves _set_file_priorities as an exception
SetFilePrioritiesRaising(files, seen, set_ok) ==
    LET skip_files == SkipFiles(seen)
    IN  IF seen = <<>> \/ skip_files = <<>>
        THEN [files |-> files, file_ids |-> <<>>, calls |-> 0, raised |-> FALSE]
        ELSE IF set_ok
        THEN [files |-> SetFilePriority(files, skip_files, 0), file_ids |-> skip_files,
              calls |-> 1, raised |-> FALSE]
        ELSE [files |-> files, file_ids |-> skip_files, calls |-> 1, raised |-> TRUE]

\* _set_file_priorities, lines 228-273, on the files the client holds for the
\* torrent and the files it reported: the files afterwards, the ids handed to
\* set_file_priority, the number of priority calls, and whether an exception
\* leaves the method (line 272 catches what set_file_priority raises)
SetFilePriorities(files, seen, set_ok) ==
    LET skip_files == SkipFiles(seen)
    IN  IF seen = <<>> \/ skip_files = <<>>
        THEN [files |-> files, file_ids |-> <<>>, calls |-> 0, raised |-> FALSE]
        ELSE IF set_ok
        THEN [files |-> SetFilePriority(files, skip_files, 0), file_ids |-> skip_files,
              calls |-> 1, raised |-> FALSE]
        ELSE [files |-> files, file_ids |-> skip_files, calls |-> 1, raised |-> FALSE]

\* the client's torrents with the files of one hash replaced
ReplaceFiles(torrents, h, files) ==
    [i \in 1..Len(torrents) |->
        IF torrents[i].hash = h THEN WithFiles(torrents[i], files) ELSE torrents[i]]

\* no priority step ran
NoPriorities == [files |-> <<>>, file_ids |-> <<>>, calls |-> 0, raised |-> FALSE]

\* TorrentManager.add_torrent, lines 198-226, with the priority step of line 217:
\* the torrent comes with the given payload; an exception leaving
\* _set_file_priorities would reach the caller through lines 224-226
AddTorrentWithFiles(torrents, hist, magnet, answer, payload, view, set_ok, now) ==
    LET outcome == AddTorrent(torrents, hist, magnet, "unknown", "", answer, now)
    IN  IF ~outcome.success
        THEN [raised |-> outcome.raised, success |-> FALSE, torrents |-> outcome.torrents,
              history |-> outcome.history, hash |-> None, before |-> <<>>,
              priorities |-> NoPriorities]
        ELSE LET h == outcome.result.hash
                 placed == ReplaceFiles(outcome.torrents, h, payload)
                 priorities == SetFilePriorities(TorrentFiles(placed, h),
                                                 GetTorrentFiles(placed, h, view), set_ok)
             IN  [raised |-> priorities.raised,
                  success |-> ~priorities.raised /\ Get(outcome.result, "success", FALSE),
                  torrents |-> ReplaceFiles(placed, h, priorities.files),
                  history |-> outcome.history, hash |-> h,
                  before |-> TorrentFiles(placed, h), priorities |-> priorities]

InitPriority ==
    /\ blacklist = {} /\ blacklistFile = blacklist
    /\ history \in SeqsUpTo({StampedEntry(Entry3, 0)}, MaxLoaded)
    /\ historyFile = history
    /\ client \in {<<>>, <<Seeding>>}
    /\ MonitorAtRest
    /\ SearchAtRest
    /\ RetryAtRest
    /\ monitoring_active = FALSE /\ monitoring_thread = NoThread
    /\ loops = <<>> /\ starting = <<>> /\ reply = NoReply
    /\ writers = <<>> /\ lastOp = NoOp
    /\ clock = 1
    /\ call = [called |-> FALSE, n |-> 0]
    /\ phase = "ready"

\* a call of add_torrent(magnet_link)
SubmitWithFiles ==
    /\ call.n < MaxCalls
    /\ \E magnet \in {M1, M1Base32} :
       \E answer \in ClientAnswers(client, magnet) :
       \E payload \in Payloads, view \in Views, set_ok \in BOOLEAN :
         LET outcome == AddTorrentWithFiles(client, history, magnet, answer, payload,
                                            view, set_ok, clock)
         IN  \* what the client is not asked for is left at one value
             /\ answer # "Ok." => (payload = <<>> /\ view = "resolved")
             /\ (answer # "Ok." \/ view # "resolved") => set_ok
             /\ client' = outcome.torrents
             /\ history' = outcome.history
             /\ historyFile' \in IF Len(history') > Len(history)
                                 THEN SavedHistories(history', historyFile)
                                 ELSE {historyFile}
             /\ call' = [called |-> TRUE, n |-> call.n + 1, magnet |-> magnet,
                         answer |-> answer, view |-> view, set_ok |-> set_ok,
                         raised |-> outcome.raised, success |-> outcome.success,
                         hash |-> outcome.hash, before |-> outcome.before,
                         file_ids |-> outcome.priorities.file_ids,
                         calls |-> outcome.priorities.calls,
                         others |-> client, loaded |-> Len(history)]
    /\ UNCHANGED <<blacklist, blacklistFile, mpc, ticks, tickList, idx, best, cur,
                   evaluated, userRemoved, removals, searchIn, searchIdx, searchOut,
                   retryArg, retryOut, phase, monitoring_active, monitoring_thread,
                   loops, starting, reply, writers, clock, lastOp>>

NextPriority == SubmitWithFiles

SpecPriority == InitPriority /\ [][NextPriority]_vars

(***************************************************************************)
(* SpecLoad: the construction of a TorrentManager over the two files as it  *)
(* finds them: missing or garbled, a list of entries, or an object with a   *)
(* list of hashes, each in either file.                                     *)
(***************************************************************************)
\* the documents a store file can hold
Documents ==
    {Unreadable}
        \cup UNION {DumpBlacklist(bl) : bl \in SUBSET Hashes}
        \cup {DumpHistory(h) : h \in SeqsUpTo({Entry1, Entry2, Entry3}, MaxLoaded)}

InitLoad ==
    /\ blacklistFile \in Documents
    /\ historyFile \in Documents
    /\ blacklist = {} /\ history = <<>>
    /\ client = <<>>
    /\ MonitorAtRest
    /\ SearchAtRest
    /\ RetryAtRest
    /\ ServerAtRest
    /\ phase = "ready"

\* TorrentManager.__init__, lines 61-62
LoadStores ==
    /\ phase = "ready"
    /\ blacklist' = LoadBlacklist(blacklistFile)
    /\ history' = LoadHistory(historyFile)
    /\ phase' = "done"
    /\ UNCHANGED <<blacklistFile, historyFile, client, mpc, ticks, tickList, idx, best,
                   cur, evaluated, userRemoved, removals, searchIn, searchIdx,
                   searchOut, retryArg, retryOut>>
    /\ UNCHANGED serverVars

NextLoad == LoadStores

SpecLoad == InitLoad /\ [][NextLoad]_vars

(***************************************************************************)
(* SpecSearchFrame: search_torrents called on a core that holds a          *)
(* blacklist, a history and a client with torrents.                         *)
(***************************************************************************)
InitSearchFrame ==
    /\ blacklist \in LoadedBlacklists
    /\ blacklistFile = blacklist
    /\ history \in SeqsUpTo({Entry3}, MaxLoaded)
    /\ historyFile = history
    /\ client \in InitialClients
    /\ MonitorAtRest
    /\ RetryAtRest
    /\ ServerAtRest
    /\ \E a \in AlternativeAnswers1337x, b \in AlternativeAnswersWatchSoMuch,
          q \in Qualities, range \in SizeRanges :
            searchIn = [answer1337x |-> a, answerWsm |-> b, quality |-> q,
                        min_size_gb |-> range[1], max_size_gb |-> range[2]]
    /\ searchIdx = <<>> /\ searchOut = <<>>
    /\ phase = "ready"

NextSearchFrame == SearchTorrents

SpecSearchFrame == InitSearchFrame /\ [][NextSearchFrame]_vars

(***************************************************************************)
(* SpecOps: the monitor tick of Spec beside every request that changes the *)
(* core's state: submit (add_torrent), delete (delete_torrent) and the      *)
(* blacklist removal, each from a request thread at any moment of a tick.   *)
(***************************************************************************)
InitOps ==
    /\ blacklist \in {{}, {H2}}
    /\ blacklistFile = blacklist
    /\ history \in SeqsUpTo({Entry3}, MaxLoaded)
    /\ historyFile = history
    /\ client \in InitialClients
    /\ MonitorAtRest
    /\ SearchAtRest
    /\ RetryAtRest
    /\ ServerAtRest
    /\ phase = "ready"

\* TorrentManager.add_torrent(magnet_link) from a request thread (source and name at
\* their defaults): lines 198-226
UserAddTorrent ==
    /\ removals < MaxRemovals
    /\ removals' = removals + 1
    /\ \E magnet \in SubmittedMagnets :
       \E answer \in ClientAnswers(client, magnet) :
         LET added == ClientAddTorrent(client, magnet, answer)
         IN  IF ~added.raised /\ Get(added.result, "success", FALSE)
             THEN /\ client' = added.torrents
                  /\ history' = AddToHistory(history,
                                    HistoryEntry(added.result.hash, added.result.name,
                                                 "unknown", magnet))
                  /\ historyFile' \in SavedHistories(history', historyFile)
             ELSE UNCHANGED <<client, history, historyFile>>
    /\ UNCHANGED <<blacklist, blacklistFile, mpc, ticks, tickList, idx, best, cur,
                   evaluated, userRemoved, searchIn, searchIdx, searchOut, retryArg,
                   retryOut, phase>>
    /\ UNCHANGED serverVars

\* TorrentManager.delete_torrent(torrent_hash, delete_files) from a request thread
\* (lines 375-377): the client removes the torrent, or the call raises
UserDeleteTorrent ==
    /\ removals < MaxRemovals
    /\ removals' = removals + 1
    /\ \E h \in Hashes, ok \in BOOLEAN :
         client' = IF ok THEN WithoutTorrent(client, h) ELSE client
    /\ UNCHANGED <<blacklist, blacklistFile, history, historyFile, mpc, ticks, tickList,
                   idx, best, cur, evaluated, userRemoved, searchIn, searchIdx,
                   searchOut, retryArg, retryOut, phase>>
    /\ UNCHANGED serverVars

NextOps ==
    \/ TickStart
    \/ Evaluate
    \/ TickEnd
    \/ AddToBlacklist
    \/ DeleteTorrent
    \/ FindAlternative
    \/ SubmitAlternative
    \/ UserRemoveFromBlacklist
    \/ UserAddTorrent
    \/ UserDeleteTorrent

SpecOps == InitOps /\ [][NextOps]_vars

(***************************************************************************)
(* SpecSave: the mutations of the two stores, each followed by its save    *)
(* (_save_blacklist, _save_history), whose write can fail, and a           *)
(* search_torrents call made afterwards in the same process.               *)
(***************************************************************************)
\* a failed write takes the mutation back and reaches the caller
AfterSaveUndone(memory, previous, wrote) ==
    [memory |-> IF wrote THEN memory ELSE previous, raised |-> ~wrote]

\* _save_blacklist (lines 393-397) and _save_history (lines 427-431): the except
\* logs the error, so the store in memory is what the mutation made of it and no
\* exception leaves the method
AfterSave(memory, previous, wrote) == [memory |-> memory, raised |-> FALSE]

\* _save_history: the document in the file afterwards, and whether it was written
SaveHistory(h, file) ==
    {[file |-> DumpHistory(h), wrote |-> TRUE],
     [file |-> file, wrote |-> FALSE], [file |-> Unreadable, wrote |-> FALSE]}

\* a store operation as lastOp records it
SaveRecord(op, arg, saved, raised, bl, hist) ==
    [done |-> TRUE, n |-> OpsDone + 1, op |-> op, arg |-> arg, wrote |-> saved.wrote,
     raised |-> raised, before |-> bl, entries |-> hist]

InitSave ==
    /\ blacklist \in {{}, {H2}}
    /\ blacklistFile \in DumpBlacklist(blacklist)
    /\ history \in SeqsUpTo({Entry3}, MaxLoaded)
    /\ historyFile = DumpHistory(history)
    /\ client = <<>>
    /\ MonitorAtRest
    /\ SearchAtRest
    /\ RetryAtRest
    /\ ServerAtRest
    /\ phase = "ready"

\* what the store operations and the search leave alone
SaveFrame ==
    UNCHANGED <<client, mpc, ticks, tickList, idx, best, cur, evaluated, userRemoved,
                removals, retryArg, retryOut, monitoring_active, monitoring_thread,
                loops, starting, reply, writers, clock, call>>

\* TorrentManager._add_to_blacklist(torrent_hash): lines 401-403
SaveAddToBlacklist ==
    /\ phase = "ready"
    /\ OpsDone < MaxOps
    /\ \E h \in Hashes :
       \E saved \in SaveBlacklist(BlacklistAdd(blacklist, h), blacklistFile) :
         LET after == AfterSave(BlacklistAdd(blacklist, h), blacklist, saved.wrote)
         IN  /\ blacklist' = after.memory
             /\ blacklistFile' = saved.file
             /\ lastOp' = SaveRecord("add", h, saved, after.raised, blacklist, history)
    /\ UNCHANGED <<history, historyFile, searchIn, searchIdx, searchOut, phase>>
    /\ SaveFrame

\* TorrentManager.remove_from_blacklist(torrent_hash): lines 411-412
SaveRemoveFromBlacklist ==
    /\ phase = "ready"
    /\ OpsDone < MaxOps
    /\ \E h \in Hashes :
       \E saved \in SaveBlacklist(BlacklistDiscard(blacklist, h), blacklistFile) :
         LET after == AfterSave(BlacklistDiscard(blacklist, h), blacklist, saved.wrote)
         IN  /\ blacklist' = after.memory
             /\ blacklistFile' = saved.file
             /\ lastOp' = SaveRecord("remove", h, saved, after.raised, blacklist, history)
    /\ UNCHANGED <<history, historyFile, searchIn, searchIdx, searchOut, phase>>
    /\ SaveFrame

\* TorrentManager._add_to_history(entry): lines 435-436
SaveAddToHistory ==
    /\ phase = "ready"
    /\ OpsDone < MaxOps
    /\ \E entry \in {Entry1, Entry2} :
       \E saved \in SaveHistory(AddToHistory(history, entry), historyFile) :
         LET after == AfterSave(AddToHistory(history, entry), history, saved.wrote)
         IN  /\ history' = after.memory
             /\ historyFile' = saved.file
             /\ lastOp' = SaveRecord("append", entry, saved, after.raised, blacklist,
                                     history)
    /\ UNCHANGED <<blacklist, blacklistFile, searchIn, searchIdx, searchOut, phase>>
    /\ SaveFrame

\* TorrentManager.search_torrents(query) with the default filters, after the store
\* operations
SearchAfterSave ==
    /\ phase = "ready"
    /\ lastOp # NoOp
    /\ \E a \in AlternativeAnswers1337x, b \in AlternativeAnswersWatchSoMuch :
         LET pool == AllResults(a, b)
             positions == SearchPositions(pool, "", 0, Inf, blacklist)
         IN  /\ searchIn' = [answer1337x |-> a, answerWsm |-> b, quality |-> "",
                             min_size_gb |-> 0, max_size_gb |-> Inf]
             /\ searchIdx' = positions
             /\ searchOut' = RecordsAt(pool, positions)
    /\ phase' = "done"
    /\ UNCHANGED <<blacklist, blacklistFile, history, historyFile, lastOp>>
    /\ SaveFrame

NextSave ==
    \/ SaveAddToBlacklist
    \/ SaveRemoveFromBlacklist
    \/ SaveAddToHistory
    \/ SearchAfterSave

SpecSave == InitSave /\ [][NextSave]_vars

(***************************************************************************)
(* SpecAdapters: search_with_magnets (1337x.py) and search_with_details    *)
(* (scraper_watchsomuch.py) as functions of the rows of the result page    *)
(* and of the detail page fetched for each row.                            *)
(***************************************************************************)
\* rows an adapter reads from one result page
MaxRows == 2

\* a detail page: the first anchor whose href starts with 'magnet:?' (None when
\* there is none), the href of the download button, the file list
Page(anchor, button, files) == [anchor |-> anchor, button |-> button, files |-> files]

\* a detail page whose request fails
Unfetched == [unfetched |-> TRUE]

\* href.startswith(prefix)
StartsWith(s, prefix) == Len(s) >= Len(prefix) /\ SubSeq(s, 1, Len(prefix)) = prefix

\* Scraper1337x.get_torrent_details: None when the request raises
GetTorrentDetails1337x(page) ==
    IF page = Unfetched THEN NoDetails ELSE Details1337x(page.anchor, page.files)

\* ScraperWatchSoMuch.get_torrent_details: the magnet of the anchor, else the href
\* of the download button when it is a magnet link
GetTorrentDetailsWatchSoMuch(page) ==
    IF page = Unfetched THEN NoDetails
    ELSE LET magnet == IF page.anchor # None THEN page.anchor
                       ELSE IF page.button # None /\ StartsWith(page.button, "magnet:")
                            THEN page.button
                            ELSE None
         IN  DetailsWatchSoMuch(magnet)

\* Scraper1337x.search_with_magnets: the rows, each with the details of its page
SearchWithMagnets(rows, pages) ==
    [i \in 1..Len(rows) |-> WithDetails(rows[i], GetTorrentDetails1337x(pages[i]))]

\* ScraperWatchSoMuch.search_with_details
SearchWithDetails(rows, pages) ==
    [i \in 1..Len(rows) |-> WithDetails(rows[i], GetTorrentDetailsWatchSoMuch(pages[i]))]

Rows1337x == {Row1337x("Show S01E01 1080p", 50, 12), Row1337x("Show 720p HDTV", 5, 20)}
RowsWatchSoMuch ==
    {RowWatchSoMuch("Show S01E01 720p", 5, 8), RowWatchSoMuch("Show 1080p WEB", 5, 12)}
Anchors == {None, M1, M2Upper, M1Base32}
Pages1337x ==
    {Unfetched} \cup {Page(a, None, f) : a \in Anchors, f \in {<<>>, <<"Show.S01E01.MKV">>}}
PagesWatchSoMuch ==
    {Unfetched} \cup {Page(a, b, <<>>) : a \in Anchors, b \in {None, M3, "/download/1.torrent"}}

InitAdapters ==
    /\ blacklist = {}
    /\ StoresEmpty
    /\ client = <<>>
    /\ MonitorAtRest
    /\ RetryAtRest
    /\ ServerAtRest
    /\ \E n \in 0..MaxRows :
         \/ \E rows \in [1..n -> Rows1337x], pages \in [1..n -> Pages1337x] :
              searchIn = [adapter |-> "1337x", rows |-> rows, pages |-> pages]
         \/ \E rows \in [1..n -> RowsWatchSoMuch], pages \in [1..n -> PagesWatchSoMuch] :
              searchIn = [adapter |-> "watchsomuch", rows |-> rows, pages |-> pages]
    /\ searchIdx = <<>> /\ searchOut = <<>>
    /\ phase = "ready"

\* what an adapter call leaves alone
AdapterFrame ==
    /\ UNCHANGED <<blacklist, blacklistFile, history, historyFile, client, mpc, ticks,
                   tickList, idx, best, cur, evaluated, userRemoved, removals, searchIn,
                   searchIdx, retryArg, retryOut>>
    /\ UNCHANGED serverVars

\* Scraper1337x.search_with_magnets(query)
AdapterSearch1337x ==
    /\ phase = "ready"
    /\ searchIn.adapter = "1337x"
    /\ searchOut' = SearchWithMagnets(searchIn.rows, searchIn.pages)
    /\ phase' = "done"
    /\ AdapterFrame

\* ScraperWatchSoMuch.search_with_details(query)
AdapterSearchWatchSoMuch ==
    /\ phase = "ready"
    /\ searchIn.adapter = "watchsomuch"
    /\ searchOut' = SearchWithDetails(searchIn.rows, searchIn.pages)
    /\ phase' = "done"
    /\ AdapterFrame

NextAdapters ==
    \/ AdapterSearch1337x
    \/ AdapterSearchWatchSoMuch

SpecAdapters == InitAdapters /\ [][NextAdapters]_vars

(***************************************************************************)
(* SpecClient: the operations of QBittorrentClient (qbittorrent_client.py), *)
(* each called while the qBittorrent service is reachable or not.  An       *)
(* unreachable service makes every call on self.client raise.               *)
(***************************************************************************)
\* the answer of an operation that raised
ClientRaised(torrents) == [raised |-> TRUE, result |-> None, torrents |-> torrents]

\* the answer of an operation that returned
ClientReturned(result, torrents) ==
    [raised |-> FALSE, result |-> result, torrents |-> torrents]

\* the client's torrents with the state of one hash replaced
WithState(torrents, h, state) ==
    [i \in 1..Len(torrents) |->
        IF torrents[i].hash = h THEN [torrents[i] EXCEPT !.state = state]
        ELSE torrents[i]]

\* QBittorrentClient.add_torrent (lines 75-118): the except re-raises
QbAddTorrent(torrents, magnet, reachable) ==
    IF ~reachable THEN ClientRaised(torrents)
    ELSE LET answer == IF ClientInfoHash(magnet) \in HashesOf(torrents) \cup {None}
                       THEN "Fails." ELSE "Ok."
             added == ClientAddTorrent(torrents, magnet, answer)
         IN  ClientReturned(added.result, added.torrents)

\* QBittorrentClient.get_torrent_info (lines 130-160): None for an unknown hash, and
\* None from the except
QbGetTorrentInfo(torrents, h, reachable) ==
    IF reachable /\ h \in HashesOf(torrents)
    THEN ClientReturned(torrents[CHOOSE i \in 1..Len(torrents) : torrents[i].hash = h],
                        torrents)
    ELSE ClientReturned(None, torrents)

\* QBittorrentClient.get_all_torrents (lines 169-188): [] from the except
QbGetAllTorrents(torrents, reachable) ==
    ClientReturned(IF reachable THEN torrents ELSE <<>>, torrents)

\* QBittorrentClient.get_torrent_files (lines 200-215): [] from the except
QbGetTorrentFiles(torrents, h, reachable) ==
    ClientReturned(GetTorrentFiles(torrents, h, IF reachable THEN "resolved" ELSE "failed"),
                   torrents)

\* QBittorrentClient.set_file_priority (lines 231-241): the except re-raises
QbSetFilePriority(torrents, h, file_ids, priority, reachable) ==
    IF ~reachable THEN ClientRaised(torrents)
    ELSE ClientReturned(None,
             ReplaceFiles(torrents, h,
                          SetFilePriority(TorrentFiles(torrents, h), file_ids, priority)))

\* QBittorrentClient.pause_torrent (lines 245-251)
QbPauseTorrent(torrents, h, reachable) ==
    IF ~reachable THEN ClientRaised(torrents)
    ELSE ClientReturned(None, WithState(torrents, h, "pausedDL"))

\* QBittorrentClient.resume_torrent (lines 255-261)
QbResumeTorrent(torrents, h, reachable) ==
    IF ~reachable THEN ClientRaised(torrents)
    ELSE ClientReturned(None, WithState(torrents, h, "downloading"))

\* QBittorrentClient.delete_torrent (lines 271-283)
QbDeleteTorrent(torrents, h, reachable) ==
    IF ~reachable THEN ClientRaised(torrents)
    ELSE ClientReturned(None, WithoutTorrent(torrents, h))

\* QBittorrentClient.recheck_torrent (lines 287-293)
QbRecheckTorrent(torrents, h, reachable) ==
    IF ~reachable THEN ClientRaised(torrents)
    ELSE ClientReturned(None, WithState(torrents, h, "checkingDL"))

InitClient ==
    /\ blacklist = {} /\ blacklistFile = blacklist
    /\ history = <<>> /\ historyFile = <<>>
    /\ client \in InitialClients \cup {<<Seeding>>}
    /\ MonitorAtRest
    /\ SearchAtRest
    /\ RetryAtRest
    /\ monitoring_active = FALSE /\ monitoring_thread = NoThread
    /\ loops = <<>> /\ starting = <<>> /\ reply = NoReply
    /\ writers = <<>> /\ lastOp = NoOp /\ clock = 0
    /\ call = [called |-> FALSE, n |-> 0]
    /\ phase = "ready"

\* what an operation of the client adapter leaves alone
ClientFrame ==
    UNCHANGED <<blacklist, blacklistFile, history, historyFile, mpc, ticks, tickList,
                idx, best, cur, evaluated, userRemoved, removals, searchIn, searchIdx,
                searchOut, retryArg, retryOut, phase, monitoring_active,
                monitoring_thread, loops, starting, reply, writers, clock, lastOp>>

\* the call as the caller observes it
ClientCall(op, reachable, answer) ==
    /\ call.n < MaxCalls
    /\ client' = answer.torrents
    /\ call' = [called |-> TRUE, n |-> call.n + 1, op |-> op, reachable |-> reachable,
                raised |-> answer.raised, result |-> answer.result]
    /\ ClientFrame

CallAddTorrent ==
    \E magnet \in {M1, M3}, reachable \in BOOLEAN :
        ClientCall("add_torrent", reachable, QbAddTorrent(client, magnet, reachable))

CallGetTorrentInfo ==
    \E h \in Hashes, reachable \in BOOLEAN :
        ClientCall("get_torrent_info", reachable, QbGetTorrentInfo(client, h, reachable))

CallGetAllTorrents ==
    \E reachable \in BOOLEAN :
        ClientCall("get_all_torrents", reachable, QbGetAllTorrents(client, reachable))

CallGetTorrentFiles ==
    \E h \in Hashes, reachable \in BOOLEAN :
        ClientCall("get_torrent_files", reachable, QbGetTorrentFiles(client, h, reachable))

CallSetFilePriority ==
    \E h \in Hashes, reachable \in BOOLEAN :
        ClientCall("set_file_priority", reachable,
                   QbSetFilePriority(client, h, <<1>>, 0, reachable))

CallPauseTorrent ==
    \E h \in Hashes, reachable \in BOOLEAN :
        ClientCall("pause_torrent", reachable, QbPauseTorrent(client, h, reachable))

CallResumeTorrent ==
    \E h \in Hashes, reachable \in BOOLEAN :
        ClientCall("resume_torrent", reachable, QbResumeTorrent(client, h, reachable))

CallDeleteTorrent ==
    \E h \in Hashes, reachable \in BOOLEAN :
        ClientCall("delete_torrent", reachable, QbDeleteTorrent(client, h, reachable))

CallRecheckTorrent ==
    \E h \in Hashes, reachable \in BOOLEAN :
        ClientCall("recheck_torrent", reachable, QbRecheckTorrent(client, h, reachable))

NextClient ==
    \/ CallAddTorrent
    \/ CallGetTorrentInfo
    \/ CallGetAllTorrents
    \/ CallGetTorrentFiles
    \/ CallSetFilePriority
    \/ CallPauseTorrent
    \/ CallResumeTorrent
    \/ CallDeleteTorrent
    \/ CallRecheckTorrent

SpecClient == InitClient /\ [][NextClient]_vars

(***************************************************************************)
(* SpecParseSize: _parse_size of both adapters (1337x.py 232-263,          *)
(* scraper_watchsomuch.py 221-252), the same code twice, on size strings.  *)
(* A size in GB is the exact number  mant / 10^scale / 1024^per.           *)
(***************************************************************************)
Size(mant, scale, per) == [mant |-> mant, scale |-> scale, per |-> per]

\* the float 0.0
ZeroSize == Size(0, 0, 0)

\* the upper-case letter of every lower-case letter
UpperOf ==
    [c \in {CharAt(LowerChars, i) : i \in 1..Len(LowerChars)} |->
        CharAt(UpperChars, CHOOSE i \in 1..Len(LowerChars) : CharAt(LowerChars, i) = c)]

\* str.upper(), character by character
RECURSIVE UpperByChar(_)
UpperByChar(s) ==
    IF s = "" THEN ""
    ELSE (IF CharAt(s, 1) \in DOMAIN UpperOf THEN UpperOf[CharAt(s, 1)] ELSE CharAt(s, 1))
            \o UpperByChar(SubSeq(s, 2, Len(s)))

DigitChars == "0123456789"

\* the value of a digit
DigitValue(c) == (CHOOSE i \in 1..Len(DigitChars) : CharAt(DigitChars, i) = c) - 1

IsDigit(c) == \E i \in 1..Len(DigitChars) : CharAt(DigitChars, i) = c

\* the character class [\d.]
IsDigitOrDot(c) == IsDigit(c) \/ c = "."

\* the last position of the longest run of [\d.] that starts at i
RECURSIVE RunEnd(_, _)
RunEnd(s, i) ==
    IF i < Len(s) /\ IsDigitOrDot(CharAt(s, i + 1)) THEN RunEnd(s, i + 1) ELSE i

\* \s*: the first position at or after j that holds no blank
RECURSIVE SkipBlanks(_, _)
SkipBlanks(s, j) ==
    IF j <= Len(s) /\ CharAt(s, j) = " " THEN SkipBlanks(s, j + 1) ELSE j

\* the units all taken as one step of 1024
ConversionsOneStep(unit) ==
    CASE unit = "GB" -> 0
      [] unit = "MB" -> 1
      [] unit = "KB" -> 1
      [] unit = "B" -> 1

\* conversions: 'GB': 1, 'MB': 1/1024, 'KB': 1/(1024**2), 'B': 1/(1024**3), as the
\* power of 1024 the value is divided by
Conversions(unit) ==
    CASE unit = "GB" -> 0
      [] unit = "MB" -> 1
      [] unit = "KB" -> 2
      [] unit = "B" -> 3

\* the alternation (GB|MB|KB|B) tried at position j, None when no branch matches
UnitAt(s, j) ==
    IF j + 1 <= Len(s) /\ SubSeq(s, j, j + 1) \in {"GB", "MB", "KB"} THEN SubSeq(s, j, j + 1)
    ELSE IF j <= Len(s) /\ CharAt(s, j) = "B" THEN "B"
    ELSE None

\* re.search(r'([\d.]+)\s*(GB|MB|KB|B)', size_str): the leftmost match; a run of
\* [\d.] can only be followed by the unit when it is taken whole
SearchSize(s) ==
    LET starts == {i \in 1..Len(s) :
                      /\ IsDigitOrDot(CharAt(s, i))
                      /\ UnitAt(s, SkipBlanks(s, RunEnd(s, i) + 1)) # None}
    IN  IF starts = {} THEN [matched |-> FALSE]
        ELSE LET i == CHOOSE k \in starts : \A l \in starts : k <= l
             IN  [matched |-> TRUE, value |-> SubSeq(s, i, RunEnd(s, i)),
                  unit |-> UnitAt(s, SkipBlanks(s, RunEnd(s, i) + 1))]

\* the digits of a text read as a whole number, dots left out
RECURSIVE DigitsValue(_)
DigitsValue(text) ==
    IF text = "" THEN 0
    ELSE IF CharAt(text, Len(text)) = "." THEN DigitsValue(SubSeq(text, 1, Len(text) - 1))
    ELSE DigitsValue(SubSeq(text, 1, Len(text) - 1)) * 10 + DigitValue(CharAt(text, Len(text)))

\* float(text) on a text of digits and dots: ValueError unless it has one dot at
\* most and a digit
ToFloat(text) ==
    LET dots == {i \in 1..Len(text) : CharAt(text, i) = "."}
    IN  IF Cardinality(dots) > 1 \/ Cardinality(dots) = Len(text) THEN [raised |-> TRUE]
        ELSE [raised |-> FALSE, mant |-> DigitsValue(text),
              scale |-> IF dots = {} THEN 0 ELSE Len(text) - (CHOOSE i \in dots : TRUE)]

\* _parse_size(size_str)
ParseSize(size_str) ==
    LET match == SearchSize(UpperByChar(size_str))
    IN  IF ~match.matched THEN ZeroSize
        ELSE LET value == ToFloat(match.value)
             IN  IF value.raised \/ value.mant = 0 THEN ZeroSize
                 ELSE Size(value.mant, value.scale, Conversions(match.unit))

\* the pieces the size strings of the model are made of
SizePrefixes == {"", "Size: ", "x264: "}
SizeNumbers == {"1.5", "500", "2048", "1.", ".5", "1.50", "0", "1.2.3", ".", ""}
SizeBlanks == {"", " ", "  "}
SizeUnits == {"GB", "MB", "KB", "B", "gb", "Mb", "TB", "GiB", ""}
SizeSuffixes == {"", "ytes"}

InitParseSize ==
    /\ blacklist = {}
    /\ StoresEmpty
    /\ client = <<>>
    /\ MonitorAtRest
    /\ RetryAtRest
    /\ ServerAtRest
    /\ \E p \in SizePrefixes, n \in SizeNumbers, b \in SizeBlanks, u \in SizeUnits,
          x \in SizeSuffixes :
            searchIn = [prefix |-> p, number |-> n, blanks |-> b, unit |-> u,
                        size_str |-> p \o n \o b \o u \o x]
    /\ searchIdx = <<>> /\ searchOut = <<>>
    /\ phase = "ready"

\* Scraper1337x._parse_size(size_str)
ParseSize1337x ==
    /\ phase = "ready"
    /\ searchOut' = <<ParseSize(searchIn.size_str)>>
    /\ phase' = "done"
    /\ AdapterFrame

\* ScraperWatchSoMuch._parse_size(size_str)
ParseSizeWatchSoMuch ==
    /\ phase = "ready"
    /\ searchOut' = <<ParseSize(searchIn.size_str)>>
    /\ phase' = "done"
    /\ AdapterFrame

NextParseSize ==
    \/ ParseSize1337x
    \/ ParseSizeWatchSoMuch

SpecParseSize == InitParseSize /\ [][NextParseSize]_vars

(***************************************************************************)
(* SpecSubmitRace: two threads inside add_torrent at the same time, a       *)
(* request thread (POST /api/download) and the monitor thread (a            *)
(* replacement).  QBittorrentClient.add_torrent is two calls on the         *)
(* service, torrents_add (line 95) and torrents_info (line 100), and the    *)
(* other thread can run between them.                                       *)
(***************************************************************************)
Submitters == {"user", "monitor"}

\* a thread about to call add_torrent(magnet_link)
Submitter(magnet) == [pc |-> "add", magnet |-> magnet, result |-> [success |-> FALSE]]

\* lines 100-112: the torrent with the greatest added_on, which is the torrent the
\* service added last
LatestTorrent(torrents) == torrents[Len(torrents)]

InitSubmitRace ==
    /\ blacklist = {} /\ blacklistFile = blacklist
    /\ history = <<>> /\ historyFile = <<>>
    /\ client \in {<<>>, <<Torrent(H2, Healthy)>>}
    /\ MonitorAtRest
    /\ SearchAtRest
    /\ RetryAtRest
    /\ monitoring_active = FALSE /\ monitoring_thread = NoThread
    /\ loops = <<>> /\ starting = <<>> /\ reply = NoReply
    /\ lastOp = NoOp /\ clock = 0 /\ call = NoCall
    /\ writers \in [Submitters -> {Submitter(m) : m \in {M1, M2, M3}}]
    /\ phase = "ready"

\* what a step of a submitting thread leaves alone
RaceFrame ==
    UNCHANGED <<blacklist, blacklistFile, mpc, ticks, tickList, idx, best, cur,
                evaluated, userRemoved, removals, searchIn, searchIdx, searchOut,
                retryArg, retryOut, phase, monitoring_active, monitoring_thread, loops,
                starting, reply, clock, call, lastOp>>

\* QBittorrentClient.add_torrent, line 95: result = self.client.torrents_add(...);
\* anything but 'Ok.' returns success False (line 114), an exception is re-raised
TorrentsAdd(w) ==
    /\ writers[w].pc = "add"
    /\ \E answer \in ClientAnswers(client, writers[w].magnet) :
         IF answer = "Ok."
         THEN /\ client' = Append(client, Torrent(ClientInfoHash(writers[w].magnet), Healthy))
              /\ writers' = [writers EXCEPT ![w].pc = "info"]
         ELSE /\ client' = client
              /\ writers' = [writers EXCEPT ![w].pc = "done"]
    /\ UNCHANGED <<history, historyFile>>
    /\ RaceFrame

\* QBittorrentClient.add_torrent, lines 100-112: torrents = self.client.torrents_info()
\* and the dict made of the latest torrent
TorrentsInfo(w) ==
    /\ writers[w].pc = "info"
    /\ writers' = [writers EXCEPT
                      ![w].pc = "record",
                      ![w].result = IF client = <<>> THEN [success |-> FALSE]
                                    ELSE [success |-> TRUE,
                                          hash |-> LatestTorrent(client).hash,
                                          name |-> LatestTorrent(client).name]]
    /\ UNCHANGED <<client, history, historyFile>>
    /\ RaceFrame

\* TorrentManager.add_torrent, lines 204-220: the history entry of a successful add
RecordSubmission(w) ==
    /\ writers[w].pc = "record"
    /\ IF writers[w].result.success
       THEN /\ history' = AddToHistory(history,
                              HistoryEntry(writers[w].result.hash, writers[w].result.name,
                                           IF w = "user" THEN "unknown" ELSE "1337x",
                                           writers[w].magnet))
            /\ historyFile' \in SavedHistories(history', historyFile)
       ELSE UNCHANGED <<history, historyFile>>
    /\ writers' = [writers EXCEPT ![w].pc = "done"]
    /\ UNCHANGED client
    /\ RaceFrame

NextSubmitRace ==
    \/ \E w \in Submitters : TorrentsAdd(w)
    \/ \E w \in Submitters : TorrentsInfo(w)
    \/ \E w \in Submitters : RecordSubmission(w)

SpecSubmitRace == InitSubmitRace /\ [][NextSubmitRace]_vars

(***************************************************************************)
(* SpecSources: which adapters search_torrents queries, as a function of    *)
(* its sources argument and of Config.ENABLE_1337X /                        *)
(* Config.ENABLE_WATCHSOMUCH.  A sources list is modelled as the set of its *)
(* items; the monitor's replacement search passes both names.               *)
(***************************************************************************)
SourceNames == {"1337x", "watchsomuch"}

\* sources=None, the default of the parameter
Omitted == [omitted |-> TRUE]

\* sources=[...]
Listed(names) == [omitted |-> FALSE, names |-> names]

\* the configuration switches, by source name
Enabled(enable_1337x, enable_watchsomuch) ==
    [s \in SourceNames |-> IF s = "1337x" THEN enable_1337x ELSE enable_watchsomuch]

\* lines 85-90: the sources when the argument is None
DefaultSources(enabled) == {s \in SourceNames : enabled[s]}

\* a source is queried as soon as it is requested
IsQueriedWhenRequested(source, sources, enabled) == source \in sources

\* lines 95 and 107: if '<name>' in sources and Config.ENABLE_<NAME>
IsQueried(source, sources, enabled) == source \in sources /\ enabled[source]

\* the adapters search_torrents calls
QueriedSources(sources, enabled) ==
    LET requested == IF sources.omitted THEN DefaultSources(enabled) ELSE sources.names
    IN  {s \in SourceNames : IsQueried(s, requested, enabled)}

\* lines 92-116: the pool, to which an adapter that is not called adds nothing
AllResultsOf(queried, answer1337x, answerWsm) ==
    AllResults(IF "1337x" \in queried THEN answer1337x ELSE Returned(<<>>),
               IF "watchsomuch" \in queried THEN answerWsm ELSE Returned(<<>>))

\* the sources arguments of the model: omitted, or a list of names
SourcesArguments ==
    {Omitted} \cup {Listed(ss) : ss \in SUBSET (SourceNames \cup {"rarbg"})}

InitSources ==
    /\ blacklist \in {{}, {H1}}
    /\ StoresEmpty
    /\ client = <<>>
    /\ MonitorAtRest
    /\ RetryAtRest
    /\ ServerAtRest
    /\ \E a \in AlternativeAnswers1337x, b \in AlternativeAnswersWatchSoMuch,
          e1 \in BOOLEAN, e2 \in BOOLEAN :
            searchIn = [answer1337x |-> a, answerWsm |-> b, quality |-> "",
                        min_size_gb |-> 0, max_size_gb |-> Inf,
                        enabled |-> Enabled(e1, e2)]
    /\ searchIdx = <<>> /\ searchOut = <<>>
    /\ phase = "ready"

\* the search with its sources argument, and the adapters it called in retryArg
SearchFrom(sources) ==
    /\ phase = "ready"
    /\ LET queried == QueriedSources(sources, searchIn.enabled)
           pool == AllResultsOf(queried, searchIn.answer1337x, searchIn.answerWsm)
           positions == SearchPositions(pool, searchIn.quality, searchIn.min_size_gb,
                                        searchIn.max_size_gb, blacklist)
       IN  /\ searchIdx' = positions
           /\ searchOut' = RecordsAt(pool, positions)
           /\ retryArg' = [called |-> TRUE, sources |-> sources, queried |-> queried]
    /\ phase' = "done"
    /\ UNCHANGED <<blacklist, blacklistFile, history, historyFile, client, mpc, ticks,
                   tickList, idx, best, cur, evaluated, userRemoved, removals, searchIn,
                   retryOut>>
    /\ UNCHANGED serverVars

\* TorrentManager.search_torrents(query, sources=...) from the search route
SearchWithSources == \E sources \in SourcesArguments : SearchFrom(sources)

\* _find_and_add_alternative, lines 332-335: sources=['1337x', 'watchsomuch']
SearchForAlternative == SearchFrom(Listed(SourceNames))

NextSources ==
    \/ SearchWithSources
    \/ SearchForAlternative

SpecSources == InitSources /\ [][NextSources]_vars

(***************************************************************************)
(* SpecQuality: search_torrents called with a quality argument that is a   *)
(* key of Config.QUALITY_KEYWORDS or any other string the search route     *)
(* passes on.                                                              *)
(***************************************************************************)
\* a tier, a tier spelled in upper case, a keyword that is no tier, a resolution
\* of no tier
RequestedQualities == {"1080p", "1080P", "HD", "1440p"}

InitQuality ==
    /\ blacklist = {}
    /\ StoresEmpty
    /\ client = <<>>
    /\ MonitorAtRest
    /\ RetryAtRest
    /\ ServerAtRest
    /\ \E a \in Answers1337x(MaxResults), b \in AnswersWatchSoMuch(MaxResults),
          q \in RequestedQualities :
            searchIn = [answer1337x |-> a, answerWsm |-> b, quality |-> q,
                        min_size_gb |-> 0, max_size_gb |-> Inf]
    /\ searchIdx = <<>> /\ searchOut = <<>>
    /\ phase = "ready"

NextQuality == SearchTorrents

SpecQuality == InitQuality /\ [][NextQuality]_vars

(***************************************************************************)
(* Claims about search_torrents, under SpecSearch.                         *)
(***************************************************************************)
\* the accumulated pool of the search_torrents call
Pool == AllResults(searchIn.answer1337x, searchIn.answerWsm)

\* the pool positions of the records returned, as a set
Returned_Positions == {searchIdx[k] : k \in 1..Len(searchIdx)}

\* C1: no record whose hash is in the blacklist at the time search_torrents runs
\* appears in the sequence it returns.
C1_NoBlacklistedResult ==
    phase = "done" =>
        \A k \in 1..Len(searchOut) : Get(searchOut[k], "hash", None) \notin blacklist

\* a search whose pool held a blacklisted record and that returned something
C1_Witness ==
    /\ phase = "done"
    /\ searchOut # <<>>
    /\ \E i \in 1..Len(Pool) : Get(Pool[i], "hash", None) \in blacklist

\* C2: the sequence returned is ordered by seeds descending (a missing seeds field
\* counts as 0), and two records with equal seeds keep the relative order they had
\* in the accumulated pool (1337x results before WatchSoMuch results, each in
\* adapter order).
C2_SortedStable ==
    phase = "done" =>
        /\ searchOut = RecordsAt(Pool, searchIdx)
        /\ \A i, j \in 1..Len(searchOut) :
            i < j =>
                /\ Get(searchOut[i], "seeds", 0) >= Get(searchOut[j], "seeds", 0)
                /\ Get(searchOut[i], "seeds", 0) = Get(searchOut[j], "seeds", 0)
                    => /\ searchIdx[i] < searchIdx[j]
                       /\ ~(searchOut[i].source = "watchsomuch"
                            /\ searchOut[j].source = "1337x")

\* a result with a tie between a 1337x record and a WatchSoMuch record, and a
\* record with fewer seeds ahead of one with more seeds in the pool
C2_Witness ==
    /\ phase = "done"
    /\ \E i, j \in 1..Len(searchOut) :
        /\ i < j
        /\ searchOut[i].seeds = searchOut[j].seeds
        /\ searchOut[i].source # searchOut[j].source
    /\ \E i, j \in 1..Len(searchOut) :
        searchIdx[i] > searchIdx[j] /\ searchOut[i].seeds > searchOut[j].seeds

\* the positions search_torrents returns for the same call without size bounds
UnboundedPositions ==
    LET p == SearchPositions(Pool, searchIn.quality, 0, Inf, blacklist)
    IN  {p[k] : k \in 1..Len(p)}

\* C3: a record with size_gb < min_size_gb or size_gb > max_size_gb never appears
\* in the output, and a record with size_gb exactly min_size_gb or max_size_gb is
\* not dropped by the size filter (it is returned whenever it would be returned
\* with no size bounds at all).
C3_SizeBounds ==
    phase = "done" =>
        /\ \A k \in 1..Len(searchOut) :
            /\ searchOut[k].size_gb >= searchIn.min_size_gb
            /\ searchOut[k].size_gb <= searchIn.max_size_gb
        /\ \A i \in 1..Len(Pool) :
            (/\ Pool[i].size_gb \in {searchIn.min_size_gb, searchIn.max_size_gb}
             /\ searchIn.min_size_gb <= searchIn.max_size_gb
             /\ i \in UnboundedPositions) => i \in Returned_Positions

\* a search with both bounds set whose pool held a record below the minimum, one
\* above the maximum, and whose output holds one at the minimum or at the maximum
C3_Witness ==
    /\ phase = "done"
    /\ searchIn.max_size_gb # Inf
    /\ \E i \in 1..Len(Pool) : Pool[i].size_gb < searchIn.min_size_gb
                                  \/ Pool[i].size_gb > searchIn.max_size_gb
    /\ \E k \in 1..Len(searchOut) :
        searchOut[k].size_gb \in {searchIn.min_size_gb, searchIn.max_size_gb}

\* the condition of C4 on one record, stated on the record alone
Qualifies(r, quality, min_size_gb, max_size_gb, bl) ==
    /\ r.size_gb >= min_size_gb
    /\ r.size_gb <= max_size_gb
    /\ quality = "" \/ \E i \in 1..Len(QUALITY_KEYWORDS(quality)) :
                          Contains(Lower(r.name), Lower(QUALITY_KEYWORDS(quality)[i]))
    /\ LET files == IF "files" \in DOMAIN r THEN r.files ELSE <<>>
       IN  files = <<>> \/ \E f \in 1..Len(files), e \in 1..Len(ALLOWED_VIDEO_EXTENSIONS) :
                              Contains(Lower(files[f]), ALLOWED_VIDEO_EXTENSIONS[e])
    /\ (IF "hash" \in DOMAIN r THEN r.hash ELSE None) \notin bl

\* the two records of the spec's end-to-end scenario
ScenarioFirst == CHOOSE r \in Records1337x : r.name = "Show S01E01 1080p"
ScenarioSecond == CHOOSE r \in RecordsWatchSoMuch : r.name = "Show S01E01 720p"

\* C4: the output is exactly the records of the merged pool that pass the size,
\* quality and file-type filters and are not blacklisted: each returned record is a
\* record of the pool, none is returned twice, none that qualifies is missing; with
\* min_size 1.0 and quality 1080p the pool of the scenario yields its first record.
C4_ExactlyQualifying ==
    phase = "done" =>
        /\ Len(searchOut) = Len(searchIdx)
        /\ \A k \in 1..Len(searchOut) :
            searchIdx[k] \in 1..Len(Pool) /\ searchOut[k] = Pool[searchIdx[k]]
        /\ \A k, l \in 1..Len(searchIdx) : k # l => searchIdx[k] # searchIdx[l]
        /\ Returned_Positions =
            {i \in 1..Len(Pool) :
                Qualifies(Pool[i], searchIn.quality, searchIn.min_size_gb,
                          searchIn.max_size_gb, blacklist)}
        /\ (/\ Pool = <<ScenarioFirst, ScenarioSecond>>
            /\ searchIn.quality = "1080p"
            /\ searchIn.min_size_gb = 10
            /\ blacklist = {})
           => searchOut = <<ScenarioFirst>>

\* the scenario of the spec has run
C4_Witness ==
    /\ phase = "done"
    /\ Pool = <<ScenarioFirst, ScenarioSecond>>
    /\ searchIn.quality = "1080p"
    /\ searchIn.min_size_gb = 10
    /\ searchIn.max_size_gb = Inf
    /\ blacklist = {}
    /\ searchOut = <<ScenarioFirst>>

(***************************************************************************)
(* Claim about _should_retry_torrent, under SpecRetry.                     *)
(***************************************************************************)
\* C5: _should_retry_torrent returns true iff (a) the lower-cased state contains
\* 'error' or 'missing', or (b) it contains 'stalled' and dlspeed is 0, or (c)
\* num_seeds < MIN_SEEDS, or (d) 0 < dlspeed < MIN_DOWNLOAD_SPEED_KB * 1024; so
\* 'error' is condemned whatever the speed and seeds, 'stalledDL' at speed 0
\* whatever the seeds, and 'downloading' above the threshold with enough seeds is not.
C5_CondemnationPredicate ==
    phase = "done" =>
        LET state == Lower(retryArg.state)
            a == Contains(state, "error") \/ Contains(state, "missing")
            b == Contains(state, "stalled") /\ retryArg.dlspeed = 0
            c == retryArg.num_seeds < MIN_SEEDS
            d == 0 < retryArg.dlspeed /\ retryArg.dlspeed < MIN_DOWNLOAD_SPEED_KB * 1024
        IN  /\ retryOut <=> (a \/ b \/ c \/ d)
            /\ retryArg.state = "error" => retryOut
            /\ (retryArg.state = "stalledDL" /\ retryArg.dlspeed = 0) => retryOut
            /\ (/\ retryArg.state = "downloading"
                /\ retryArg.dlspeed > MIN_DOWNLOAD_SPEED_KB * 1024
                /\ retryArg.num_seeds >= MIN_SEEDS) => ~retryOut

\* a stalled torrent with seeds was condemned at speed 0
C5_Witness ==
    /\ phase = "done"
    /\ retryArg.state = "stalledDL"
    /\ retryArg.dlspeed = 0
    /\ retryArg.num_seeds >= MIN_SEEDS
    /\ retryOut

(***************************************************************************)
(* Claims about the monitor tick, under Spec.                              *)
(***************************************************************************)
\* the steps of a condemnation come in the order add to blacklist (and save),
\* delete from the client without the files, search for a replacement
CondemnationOrder ==
    cur.started =>
        /\ mpc = "blacklist" => (cur.condemned /\ cur.deletes = <<>> /\ ~cur.searched)
        /\ mpc = "delete" => (cur.blacklisted /\ cur.deletes = <<>> /\ ~cur.searched)
        /\ \A i \in 1..Len(cur.deletes) :
            cur.blacklisted /\ cur.deletes[i].delete_files = FALSE
        /\ mpc = "replace" =>
            (Len(cur.deletes) = 1 /\ cur.deletes[1].ok /\ ~cur.searched)
        /\ cur.searched => (Len(cur.deletes) = 1 /\ cur.deletes[1].ok)
        /\ cur.submitted # <<>> => cur.searched

C7_SubmitsTopCandidate ==
    (cur.started /\ cur.done /\ cur.searched /\ cur.candidates # <<>>) =>
        cur.submitted = <<Get(cur.candidates[1], "magnet_link", None)>>

\* C8: when the replacement search yields no candidate the monitor makes no
\* submission and appends no history entry for that torrent in that tick, and the
\* step leaves the torrent blacklisted and removed from the client.
C8_NoCandidateNoSubmission ==
    /\ []((cur.started /\ cur.done /\ cur.searched /\ cur.candidates = <<>>) =>
            (cur.submitted = <<>> /\ cur.recorded = 0))
    /\ [][(mpc = "replace" /\ mpc' # "replace" /\ cur'.candidates = <<>>) =>
            /\ mpc' = "loop"
            /\ cur'.done
            /\ blacklist' = blacklist
            /\ client' = client
            /\ history' = history /\ historyFile' = historyFile
            /\ cur.hash \notin HashesOf(client')
            /\ cur'.sawBlacklisted => cur.hash \in blacklist']_vars

\* a replacement search found nothing for a condemned, blacklisted, removed torrent
C8_Witness ==
    /\ cur.started /\ cur.done /\ cur.searched
    /\ cur.candidates = <<>>
    /\ cur.hash \in blacklist
    /\ cur.hash \notin HashesOf(client)

\* C9: once condemned, and for as long as its hash stays in the blacklist, no
\* replacement submission of the monitor makes the torrent with that hash active in
\* the download client again.
C9_NoReturnFromCondemned ==
    [][(mpc = "submit" /\ mpc' = "loop") =>
        \A h \in blacklist \cap blacklist' :
            h \notin HashesOf(client) => h \notin HashesOf(client')]_vars

\* C10: a failure while handling one torrent does not prevent the evaluation of the
\* remaining torrents of the tick: when the tick is over every torrent of its list
\* has been evaluated.
C10_EveryTorrentEvaluated ==
    (mpc = "idle" /\ ticks > 0) => evaluated = Len(tickList)

(***************************************************************************)
(* Claims about the monitoring control, under SpecLoop and SpecLoopFair.   *)
(***************************************************************************)
\* the threads that have left monitor_torrents_loop, or never ran
LoopsOver == \A t \in LoopIds : loops[t].pc \in {"exited", "unstarted"}

\* C11: a failure during a tick never terminates the monitor loop: whether the tick
\* returned or raised the loop sleeps the standard interval, it leaves only through
\* the test of the flag when the flag is cleared, and while monitoring stays enabled
\* another tick eventually begins after the sleep.
C11_LoopSurvivesFailure ==
    /\ [][\A t \in LoopIds :
            /\ (loops[t].pc = "tick" /\ loops'[t].pc # "tick") =>
                    (loops'[t].pc = "sleep" /\ loops'[t].slept = MONITORING_INTERVAL)
            /\ (loops[t].pc # "exited" /\ loops'[t].pc = "exited") =>
                    (loops[t].pc = "top" /\ ~monitoring_active)]_vars
    /\ \A t \in 1..MaxLoops :
        (t \in LoopIds /\ loops[t].pc = "sleep")
            ~> ((t \in LoopIds /\ loops[t].pc = "tick") \/ ~monitoring_active)

\* a thread whose last tick raised is in its next tick, monitoring still enabled
C11_Witness ==
    /\ monitoring_active
    /\ \E t \in LoopIds : loops[t].pc = "tick" /\ loops[t].failed

\* C13: the loop is stoppable between ticks: a thread that tests the flag when it is
\* cleared begins no further tick and exits for good; and once the flag is cleared,
\* unless start sets it again, every loop thread eventually exits (a tick in
\* progress finishes first).
C13_StoppableBetweenTicks ==
    /\ [][\A t \in LoopIds :
            /\ (loops[t].pc = "top" /\ ~monitoring_active) =>
                    loops'[t].pc \in {"top", "exited"}
            /\ loops[t].pc = "exited" => loops'[t].pc = "exited"]_vars
    /\ (~monitoring_active) ~> (monitoring_active \/ LoopsOver)

\* after a stop, a thread that ran at least one tick has exited
C13_Witness ==
    /\ ~monitoring_active
    /\ reply # NoReply /\ reply.op = "stop"
    /\ \E t \in LoopIds : loops[t].pc = "exited" /\ loops[t].slept = MONITORING_INTERVAL

\* C14: start and stop are idempotent: no thread is created by a start request that
\* found monitoring active, such a request leaves flag, handle and threads unchanged;
\* a stop while monitoring is inactive leaves them unchanged; status reports the
\* flag, which is true after a start and false after a stop.
C14_StartStopIdempotent ==
    [][/\ Len(loops') > Len(loops) =>
            \E i \in 1..Len(starting) :
                starting[i] = FALSE /\ starting' = Without(starting, i)
       /\ (Served' = Served + 1 /\ reply'.op = "start" /\ Len(starting') = Len(starting)) =>
            /\ monitoring_active
            /\ UNCHANGED <<monitoring_active, monitoring_thread, loops, starting>>
       /\ (Served' = Served + 1 /\ reply'.op = "start" /\ Len(starting') < Len(starting)) =>
            monitoring_active'
       /\ (Served' = Served + 1 /\ reply'.op = "stop") =>
            /\ ~monitoring_active'
            /\ ~monitoring_active =>
                UNCHANGED <<monitoring_active, monitoring_thread, loops, starting>>
       /\ (Served' = Served + 1 /\ reply'.op = "status") =>
            /\ reply'.body.active = monitoring_active
            /\ UNCHANGED <<monitoring_active, monitoring_thread, loops, starting>>]_vars

\* a start request was answered 'already active' while the one loop thread runs, the
\* handle still naming it
C14_Witness ==
    /\ reply # NoReply /\ reply.op = "start"
    /\ "message" \in DOMAIN reply.body /\ reply.body.message = "Monitoring already active"
    /\ monitoring_active
    /\ Len(loops) = 1 /\ monitoring_thread = 1 /\ loops[1].pc # "exited"

(***************************************************************************)
(* Claims about the blacklist store, under SpecBlacklist.                  *)
(***************************************************************************)
\* C18: blacklist membership round-trips through persistence: after
\* _add_to_blacklist(h) whose write succeeded the file's document holds h and a
\* reload has h as a member; after remove_from_blacklist(h) whose write succeeded
\* the document does not hold h and a reload does not have it; whatever adds and
\* removes came before.
C18_BlacklistRoundTrip ==
    (lastOp # NoOp /\ lastOp.wrote) =>
        /\ lastOp.op = "add" =>
            /\ lastOp.hash \in LoadBlacklist(blacklistFile)
            /\ lastOp.reloaded =>
                (lastOp.hash \in blacklist /\ blacklist = lastOp.before \cup {lastOp.hash})
        /\ lastOp.op = "remove" =>
            /\ lastOp.hash \notin LoadBlacklist(blacklistFile)
            /\ lastOp.reloaded =>
                (lastOp.hash \notin blacklist /\ blacklist = lastOp.before \ {lastOp.hash})

\* after earlier operations a member was removed, the write succeeded, and the
\* blacklist was reloaded with other hashes still in it
C18_Witness ==
    /\ lastOp # NoOp /\ lastOp.wrote /\ lastOp.reloaded
    /\ lastOp.op = "remove" /\ lastOp.n >= 2
    /\ lastOp.hash \in lastOp.before
    /\ blacklist # {}

\* C20: blacklist removal is idempotent: remove_from_blacklist of a hash that is not
\* a member raises nothing and leaves the blacklist (and, when the write succeeds,
\* the hashes of the file) unchanged, and a second removal of the same hash leaves
\* the state of the first.
C20_RemovalIdempotent ==
    [][(OpsDone' = OpsDone + 1 /\ lastOp'.op = "remove") =>
        /\ ~lastOp'.raised
        /\ blacklist' = blacklist \ {lastOp'.hash}
        /\ lastOp'.hash \notin blacklist =>
            /\ blacklist' = blacklist
            /\ lastOp'.wrote => LoadBlacklist(blacklistFile') = blacklist
        /\ (/\ lastOp # NoOp /\ lastOp.op = "remove" /\ ~lastOp.reloaded
            /\ lastOp.hash = lastOp'.hash) => blacklist' = blacklist]_vars

\* a hash was removed from a non-empty blacklist that did not hold it
C20_Witness ==
    /\ lastOp # NoOp /\ lastOp.op = "remove"
    /\ lastOp.hash \notin lastOp.before
    /\ lastOp.before # {}
    /\ blacklist = lastOp.before

(***************************************************************************)
(* Claim about concurrent saves, under SpecStores.                         *)
(***************************************************************************)
\* both threads have mutated and saved
WritersDone == \A w \in DOMAIN writers : writers[w].pc = "done"

\* C12: no update is lost under concurrency: once the monitor's mutation and the
\* user's mutation of a store have both completed, the persisted document equals the
\* in-memory store and reflects both mutations.
C12_NoLostUpdate ==
    (writers # <<>> /\ WritersDone) =>
        IF writers["monitor"].store = "blacklist"
        THEN /\ LoadBlacklist(blacklistFile) = blacklist
             /\ writers["monitor"].arg # writers["user"].arg =>
                    /\ writers["monitor"].arg \in LoadBlacklist(blacklistFile)
                    /\ writers["user"].arg \notin LoadBlacklist(blacklistFile)
        ELSE /\ LoadHistory(historyFile) = history
             /\ \A w \in Writers :
                    \E i \in 1..Len(LoadHistory(historyFile)) :
                        LoadHistory(historyFile)[i] = writers[w].arg

(***************************************************************************)
(* Claims about submissions, under SpecSubmit.                             *)
(***************************************************************************)
\* C15: every add_torrent call in which the client reports success appends exactly
\* one history entry carrying the submitted magnet and source, a call in which the
\* client raises or reports failure appends none; so the history length is the
\* loaded length plus the number of successful submissions.
C15_OneEntryPerSuccess ==
    /\ [](Len(history) = call.loaded + call.successes)
    /\ [][call'.n = call.n + 1 =>
            /\ call'.success <=> call'.answer = "Ok."
            /\ IF call'.success
               THEN /\ Len(history') = Len(history) + 1
                    /\ SubSeq(history', 1, Len(history)) = history
                    /\ history'[Len(history')].magnet = call'.magnet
                    /\ history'[Len(history')].source = call'.source
               ELSE history' = history]_vars

\* after a loaded entry and one successful submission, a call in which the client
\* raised left the history at two entries
C15_Witness ==
    /\ call.called /\ call.n = 2 /\ call.raised
    /\ call.loaded = 1 /\ call.successes = 1
    /\ Len(history) = 2

\* C16: the added_at of the entry recorded by a successful submit is no earlier than
\* the moment add_torrent was called and no later than the moment it returned, on
\* the logical clock.
C16_TimestampWithinCall ==
    (call.called /\ call.success) =>
        /\ call.at <= history[Len(history)].added_at
        /\ history[Len(history)].added_at <= call.returned

\* a second call succeeded and its entry is stamped strictly inside the call
C16_Witness ==
    /\ call.called /\ call.success /\ call.n = 2
    /\ call.at < history[Len(history)].added_at
    /\ history[Len(history)].added_at < call.returned

\* C17: when the client cannot add the magnet (it raises, or the add is not
\* acknowledged) the download request returns a failure indicator, never a success
\* response, and reports no torrent hash as added.
C17_FailureSurfaced ==
    (/\ call.called /\ call.via = "route" /\ call.answer # "Ok."
     /\ reply # NoReply /\ reply.n = call.served) =>
        /\ reply.code >= 400
        /\ "success" \notin DOMAIN reply.body
        /\ "hash" \notin DOMAIN reply.body

(***************************************************************************)
(* Claim about the growth of the blacklist, under Spec.                    *)
(***************************************************************************)
\* C19: the blacklist grows monotonically except for explicit user removal: a hash
\* leaves the blacklist only in a step of remove_from_blacklist, which takes out that
\* one hash and no other; no step of a monitor tick (evaluation, condemnation,
\* removal from the client, replacement search, submission) removes one.
C19_ShrinksOnlyByUserRemoval ==
    [][(blacklist \ blacklist') # {} =>
        /\ removals' = removals + 1
        /\ \E h \in Hashes : blacklist \ blacklist' = {h}
        /\ mpc # "idle" => (blacklist \ blacklist') \subseteq userRemoved'
        /\ UNCHANGED <<mpc, client, history, tickList, idx>>]_vars

\* a user removal took a hash out during a tick in which the monitor added one, and
\* the monitor's hash is still there
C19_Witness ==
    /\ removals = 1
    /\ userRemoved # {}
    /\ cur.started /\ cur.blacklisted
    /\ cur.hash \in blacklist
    /\ cur.hash \notin userRemoved

(***************************************************************************)
(* Claim about the history, under SpecOps.                                 *)
(***************************************************************************)
\* C21: the history is append-only: whatever step is taken (a submission from a
\* request or from the monitor's replacement step, any step of a monitor tick, a
\* delete, a blacklist add or removal), the in-memory history afterwards has the
\* history before as a prefix, so every entry stays unchanged at its position.
C21_HistoryAppendOnly ==
    [][/\ Len(history') >= Len(history)
       /\ SubSeq(history', 1, Len(history)) = history]_vars

\* a loaded entry is still first after a user submission and a replacement
\* submission each appended an entry behind it
C21_Witness ==
    /\ Len(history) = 3
    /\ history[1] = Entry3
    /\ removals = 1
    /\ cur.started /\ cur.recorded = 1

(***************************************************************************)
(* Claims about failing adapters and the frame of search_torrents.         *)
(***************************************************************************)
\* what search_torrents returns when the given records are all it accumulated
SearchOf(results) ==
    RecordsAt(results, SearchPositions(results, searchIn.quality, searchIn.min_size_gb,
                                       searchIn.max_size_gb, blacklist))

\* C22: adapter failures are isolated in search_torrents: when one source adapter
\* raises, the call returns what the other adapter returned, filtered and ranked;
\* when both raise the call still returns, and returns the empty sequence.
C22_AdapterFailuresIsolated ==
    phase = "done" =>
        /\ (searchIn.answer1337x.raised /\ ~searchIn.answerWsm.raised)
                => searchOut = SearchOf(searchIn.answerWsm.results)
        /\ (~searchIn.answer1337x.raised /\ searchIn.answerWsm.raised)
                => searchOut = SearchOf(searchIn.answer1337x.results)
        /\ (searchIn.answer1337x.raised /\ searchIn.answerWsm.raised)
                => searchOut = <<>>

\* the 1337x adapter raised and the call returned two WatchSoMuch records, ranked
\* against their arrival order
C22_Witness ==
    /\ phase = "done"
    /\ searchIn.answer1337x.raised
    /\ ~searchIn.answerWsm.raised
    /\ Len(searchOut) = 2
    /\ searchIdx = <<2, 1>>

\* C24: search_torrents has no side effect on the core's state: for every input and
\* outcome, adapter failures included, the step of the call leaves the blacklist,
\* the history, both persisted documents and the client's torrents as they were.
C24_SearchHasNoSideEffects ==
    [][(phase = "ready" /\ phase' = "done") =>
            UNCHANGED <<blacklist, blacklistFile, history, historyFile, client>>]_vars

\* a search in which one adapter raised returned a record, on a core with a
\* blacklist, a history entry and two torrents in the client
C24_Witness ==
    /\ phase = "done"
    /\ searchIn.answer1337x.raised
    /\ searchOut # <<>>
    /\ blacklist = {H1} /\ blacklistFile = blacklist
    /\ history = <<Entry3>> /\ historyFile = history
    /\ Len(client) = 2

(***************************************************************************)
(* Claims about the quality and file-type filters, under SpecSearch.       *)
(***************************************************************************)
\* t occurs in s when the case of letters is ignored, compared letter by letter
ContainsIgnoringCase(s, t) ==
    \E i \in 1..(Len(s) - Len(t) + 1) :
        \A j \in 1..Len(t) : LowerChar(CharAt(s, i + j - 1)) = LowerChar(CharAt(t, j))

\* C25: with a non-empty quality filter every returned record's name contains,
\* case-insensitively as a substring, at least one keyword configured for that
\* tier; with an empty quality filter every record of the pool that passes the
\* size and file-type filters and is not blacklisted is returned.
C25_QualityFilter ==
    phase = "done" =>
        /\ searchIn.quality # "" =>
            \A k \in 1..Len(searchOut) :
                \E n \in 1..Len(QUALITY_KEYWORDS(searchIn.quality)) :
                    ContainsIgnoringCase(searchOut[k].name,
                                         QUALITY_KEYWORDS(searchIn.quality)[n])
        /\ searchIn.quality = "" =>
            \A i \in 1..Len(Pool) :
                Qualifies(Pool[i], "", searchIn.min_size_gb, searchIn.max_size_gb,
                          blacklist) => i \in Returned_Positions

\* a search for 1080p kept a record whose name carries the keyword in another case
\* and dropped a record of the pool that carries only keywords of another tier
C25_Witness ==
    /\ phase = "done"
    /\ searchIn.quality = "1080p"
    /\ \E k \in 1..Len(searchOut) : searchOut[k].name = "Show 1080P.MP4"
    /\ \E i \in 1..Len(Pool) :
        /\ Pool[i].name = "Show 720p HDTV"
        /\ i \notin Returned_Positions

\* the file list of a record: result.get('files', [])
FilesOf(r) == IF "files" \in DOMAIN r THEN r.files ELSE <<>>

\* C26: every returned record with a non-empty file list has at least one listed
\* file whose name contains a recognised media extension (letter case ignored); a
\* record of the pool whose file list is empty or absent is returned whenever it
\* passes the size and quality filters and is not blacklisted, whatever its name.
C26_FileTypeFilter ==
    phase = "done" =>
        /\ \A k \in 1..Len(searchOut) :
            FilesOf(searchOut[k]) # <<>> =>
                \E f \in 1..Len(FilesOf(searchOut[k])),
                   e \in 1..Len(ALLOWED_VIDEO_EXTENSIONS) :
                     ContainsIgnoringCase(FilesOf(searchOut[k])[f],
                                          ALLOWED_VIDEO_EXTENSIONS[e])
        /\ \A i \in 1..Len(Pool) :
            (/\ FilesOf(Pool[i]) = <<>>
             /\ Qualifies(Pool[i], searchIn.quality, searchIn.min_size_gb,
                          searchIn.max_size_gb, blacklist)) => i \in Returned_Positions

\* a search without quality filter returned a record with no file list and no
\* extension in its name, and dropped a record whose only file is not a media file
C26_Witness ==
    /\ phase = "done"
    /\ \E k \in 1..Len(searchOut) :
        searchOut[k].name = "Show 720p HDTV" /\ "files" \notin DOMAIN searchOut[k]
    /\ \E i \in 1..Len(Pool) :
        /\ Pool[i].name = "Show FULLHD"
        /\ i \notin Returned_Positions
        /\ Pool[i].size_gb >= searchIn.min_size_gb
        /\ searchIn.quality = ""

(***************************************************************************)
(* Claim about loading the stores, under SpecLoad.                         *)
(***************************************************************************)
\* C23: loading tolerates a missing or malformed file: a blacklist file that is
\* missing, garbled or not an object with hashes loads as the empty set, and a
\* history file that is missing, garbled or holds well-formed content that is not
\* a list of entries loads as the empty sequence.
C23_LoadTolerant ==
    phase = "done" =>
        /\ "hashes" \notin DOMAIN blacklistFile => blacklist = {}
        /\ "entries" \notin DOMAIN historyFile => DOMAIN history = {}

(***************************************************************************)
(* Claims about the file-priority step, under SpecPriority.                *)
(***************************************************************************)
\* the rule of the policy on one file name, stated letter by letter
MatchesSkipRule(name) ==
    /\ \E e \in 1..Len(EXCLUDED_EXTENSIONS) :
            ContainsIgnoringCase(name, EXCLUDED_EXTENSIONS[e])
    /\ ~\E e \in 1..Len(ALLOWED_VIDEO_EXTENSIONS) :
            ContainsIgnoringCase(name, ALLOWED_VIDEO_EXTENSIONS[e])

\* the files the client holds for the torrent of the last call
FilesAfter == TorrentFiles(client, call.hash)

\* C27: after a successful submit whose priority step went through (the client
\* reported the files after the settle delay and the priority call did not fail),
\* a file of the torrent is at priority 0 exactly when its name contains an excluded
\* extension and no allowed media extension; every other file keeps the priority
\* it had, the one priority call made names exactly the files to skip, and none is
\* made when there is nothing to skip.  Whatever the outcome of the step, no file
\* outside the rule and no file of another torrent changes priority.
C27_FilePriorityPolicy ==
    (call.called /\ call.success) =>
        /\ Len(FilesAfter) = Len(call.before)
        /\ \A i \in 1..Len(FilesAfter) :
            /\ FilesAfter[i].name = call.before[i].name
            /\ FilesAfter[i] # call.before[i] => MatchesSkipRule(FilesAfter[i].name)
        /\ \A h \in HashesOf(call.others) :
            TorrentFiles(client, h) = TorrentFiles(call.others, h)
        /\ (call.view = "resolved" /\ call.set_ok) =>
            /\ \A i \in 1..Len(FilesAfter) :
                /\ FilesAfter[i].priority = 0 <=> MatchesSkipRule(FilesAfter[i].name)
                /\ ~MatchesSkipRule(FilesAfter[i].name) =>
                        FilesAfter[i].priority = call.before[i].priority
            /\ {call.file_ids[k] : k \in 1..Len(call.file_ids)}
                = {f.index : f \in {FilesAfter[i] : i \in 1..Len(FilesAfter)} \cap
                                   {g \in {FilesAfter[i] : i \in 1..Len(FilesAfter)} :
                                        MatchesSkipRule(g.name)}}
            /\ call.calls = IF call.file_ids = <<>> THEN 0 ELSE 1

\* a torrent came with a subtitle file and a video file whose name also contains
\* an excluded extension: the first is skipped, the second is not, beside another
\* torrent whose files are as they were
C27_Witness ==
    /\ call.called /\ call.success /\ call.view = "resolved" /\ call.set_ok
    /\ Len(FilesAfter) = 2
    /\ FilesAfter[1].name = "subs.srt" /\ FilesAfter[1].priority = 0
    /\ FilesAfter[2].name = "Sample.SUB.mp4" /\ FilesAfter[2].priority = 1
    /\ call.file_ids = <<0>>
    /\ call.others = <<Seeding>>

\* C28: the priority step is best-effort: when the client reports no file after
\* the settle delay (metadata pending, or the fetch failed) or the priority call
\* fails, no priority is changed, the call of add_torrent raises nothing and
\* returns the client's success, and the history entry of the submission, appended
\* before the step, is the last entry of the history.
C28_PriorityStepBestEffort ==
    (/\ call.called /\ call.answer = "Ok."
     /\ call.view # "resolved" \/ ~call.set_ok) =>
        /\ ~call.raised
        /\ call.success
        /\ FilesAfter = call.before
        /\ \A i \in 1..Len(FilesAfter) : FilesAfter[i].priority = 1
        /\ Len(history) = call.loaded + 1
        /\ history[Len(history)].hash = call.hash
        /\ history[Len(history)].magnet = call.magnet

\* the priority call failed for a torrent with a file to skip: the file is still at
\* normal priority, the call succeeded and the entry is in the history
C28_Witness ==
    /\ call.called /\ call.answer = "Ok." /\ call.view = "resolved" /\ ~call.set_ok
    /\ call.calls = 1
    /\ call.success /\ ~call.raised
    /\ Len(FilesAfter) = 2
    /\ FilesAfter[1].name = "info.nfo" /\ FilesAfter[1].priority = 1
    /\ history[Len(history)].hash = call.hash

(***************************************************************************)
(* Claim about a failing save, under SpecSave.                             *)
(***************************************************************************)
\* the hashes the blacklist holds in memory and the file does not
Unsaved == blacklist \ LoadBlacklist(blacklistFile)

\* C29: when the write of a store fails the mutation is still in effect in
\* memory (the hash is added to or removed from the blacklist, the entry is the
\* last of the history), no exception reaches the caller, and a search made later
\* in the same process returns no record whose hash is on the in-memory blacklist,
\* the hashes whose write failed included.
C29_MemoryAuthoritative ==
    /\ (lastOp # NoOp /\ ~lastOp.wrote) =>
          /\ ~lastOp.raised
          /\ lastOp.op = "add" =>
                blacklist = lastOp.before \cup {lastOp.arg} /\ history = lastOp.entries
          /\ lastOp.op = "remove" =>
                blacklist = lastOp.before \ {lastOp.arg} /\ history = lastOp.entries
          /\ lastOp.op = "append" =>
                /\ history = lastOp.entries \o <<lastOp.arg>>
                /\ blacklist = lastOp.before
    /\ phase = "done" =>
          \A k \in 1..Len(searchOut) : Get(searchOut[k], "hash", None) \notin Unsaved

\* a hash was added while the write failed, the file does not hold it, and the
\* search made afterwards left out a record an adapter returned with that hash
C29_Witness ==
    /\ phase = "done"
    /\ lastOp # NoOp /\ lastOp.op = "add" /\ ~lastOp.wrote
    /\ lastOp.arg \notin lastOp.before
    /\ lastOp.arg \in Unsaved
    /\ \E i \in 1..Len(Pool) : Get(Pool[i], "hash", None) = lastOp.arg
    /\ searchOut # <<>>

(***************************************************************************)
(* Claim about a failing replacement, under Spec.                          *)
(***************************************************************************)
\* C30: a step of the replacement (the search of _find_and_add_alternative, or
\* its submission) that ends without a new torrent recorded leaves the blacklist,
\* its file and the client as they were: the condemned torrent is still off the
\* client and still blacklisted unless a user removed it in this tick; and the
\* monitor goes on with the next torrent of the same tick.
C30_ReplacementFailureContained ==
    [][(/\ mpc \in {"replace", "submit"}
        /\ mpc' \notin {mpc, "submit"}
        /\ history' = history)
          => /\ mpc' = "loop" /\ idx' = idx + 1
             /\ tickList' = tickList /\ ticks' = ticks
             /\ blacklist' = blacklist /\ blacklistFile' = blacklistFile
             /\ client' = client
             /\ cur.hash \notin HashesOf(client')
             /\ cur.hash \in blacklist' \cup userRemoved']_vars

\* a submission was made for a condemned torrent and nothing was recorded; the
\* torrent is blacklisted and off the client, and the tick has a torrent left
C30_Witness ==
    /\ mpc = "loop"
    /\ cur # NoEntry /\ cur.condemned /\ cur.done
    /\ cur.submitted # <<>> /\ cur.recorded = 0
    /\ cur.hash \in blacklist
    /\ cur.hash \notin HashesOf(client)
    /\ idx <= Len(tickList)

(***************************************************************************)
(* Claim about a failing blacklist save during a condemnation, under Spec. *)
(***************************************************************************)
\* C31: when the save of the blacklist fails during a condemnation (the hash is
\* in memory and not in the file), the monitor abandons that torrent for the tick:
\* it attempts no removal from the client, runs no replacement search and submits
\* nothing for it.
C31_AbandonedOnFailedSave ==
    (cur # NoEntry /\ cur.condemned /\ cur.blacklisted /\ ~cur.persisted) =>
        /\ cur.deletes = <<>>
        /\ ~cur.searched
        /\ cur.submitted = <<>>

(***************************************************************************)
(* Claim about duplicates in the merged results, under SpecSearch.         *)
(***************************************************************************)
\* C32: the list search_torrents returns never holds a record of one source and
\* a record of the other source with the same info-hash (a hash that is present).
C32_NoDuplicateAcrossSources ==
    phase = "done" =>
        \A i, j \in 1..Len(searchOut) :
            (/\ searchOut[i].source # searchOut[j].source
             /\ Get(searchOut[i], "hash", None) # None)
                => Get(searchOut[i], "hash", None) # Get(searchOut[j], "hash", None)

(***************************************************************************)
(* Claim about the records of the adapters, under SpecAdapters.            *)
(***************************************************************************)
\* 40 characters, each a digit or a lower-case letter from a to f
IsLowerHex40(h) ==
    /\ Len(h) = HASH_LEN
    /\ \A i \in 1..Len(h) : IsHex(CharAt(h, i)) /\ LowerChar(CharAt(h, i)) = CharAt(h, i)

\* h is, up to the case of its letters, what follows some 'btih:' in the magnet
FollowsBtih(magnet, h) ==
    \E i \in 1..(Len(magnet) - HASH_LEN - 4) :
        /\ SubSeq(magnet, i, i + 4) = "btih:"
        /\ LowerByChar(SubSeq(magnet, i + 5, i + 4 + HASH_LEN)) = h

\* C33: in every record an adapter returns, a hash that is present is 40
\* lower-case hex characters taken from the record's own magnet; a record without
\* magnet has no hash; a row whose detail page could not be fetched has neither.
C33_RecordHashFromMagnet ==
    phase = "done" =>
        \A i \in 1..Len(searchOut) :
            LET h == Get(searchOut[i], "hash", None)
                magnet == Get(searchOut[i], "magnet_link", None)
            IN  /\ h # None => (magnet # None /\ IsLowerHex40(h) /\ FollowsBtih(magnet, h))
                /\ magnet = None => h = None
                /\ searchIn.pages[i] = Unfetched => (magnet = None /\ h = None)

\* an adapter returned a record whose magnet spells the hash in upper case and
\* whose hash is H2, beside a row whose detail page could not be fetched
C33_Witness ==
    /\ phase = "done"
    /\ \E i, j \in 1..Len(searchOut) :
        /\ Get(searchOut[i], "magnet_link", None) = M2Upper
        /\ Get(searchOut[i], "hash", None) = H2
        /\ searchIn.pages[j] = Unfetched

(***************************************************************************)
(* Claim about the client adapter on an unreachable service, under          *)
(* SpecClient.                                                              *)
(***************************************************************************)
\* C34: every operation of the download-client adapter called while the service
\* is unreachable ends with an error raised to the caller, never with a normal
\* result.
C34_UnreachableRaises ==
    (call.called /\ ~call.reachable) => call.raised

(***************************************************************************)
(* Claim about size-string parsing, under SpecParseSize.                   *)
(***************************************************************************)
\* the numbers the size strings of the model spell, as mant / 10^scale
SpelledNumber ==
    [n \in {"1.5", "500", "2048", "1.", ".5", "1.50", "0"} |->
        CASE n = "1.5" -> <<15, 1>>
          [] n = "500" -> <<500, 0>>
          [] n = "2048" -> <<2048, 0>>
          [] n = "1." -> <<1, 0>>
          [] n = ".5" -> <<5, 1>>
          [] n = "1.50" -> <<15, 1>>
          [] n = "0" -> <<0, 0>>]

\* ten to the power of n
RECURSIVE TenTo(_)
TenTo(n) == IF n = 0 THEN 1 ELSE 10 * TenTo(n - 1)

\* the size is the number mant / 10^scale divided by 1024^per
IsSize(size, mant, scale, per) ==
    IF mant = 0 THEN size.mant = 0
    ELSE /\ size.per = per
         /\ size.mant * TenTo(scale) = mant * TenTo(size.scale)

\* C35: a number followed by a unit parses to the size in GB: the number itself
\* for GB, divided by 1024 for MB, by 1024^2 for KB, by 1024^3 for B, whatever the
\* case of the unit; a string without a number followed by one of these units, or
\* with a number float() rejects, parses to 0.0.
C35_ParseSize ==
    phase = "done" =>
        LET size == searchOut[1]
            unit == UpperByChar(searchIn.unit)
        IN  IF searchIn.number \in DOMAIN SpelledNumber /\ unit \in {"GB", "MB", "KB", "B"}
            THEN LET n == SpelledNumber[searchIn.number]
                 IN  /\ unit = "GB" => IsSize(size, n[1], n[2], 0)
                     /\ unit = "MB" => IsSize(size, n[1], n[2], 1)
                     /\ unit = "KB" => IsSize(size, n[1], n[2], 2)
                     /\ unit = "B" => IsSize(size, n[1], n[2], 3)
            ELSE size = ZeroSize

\* '2048 KB' was parsed to 2048 / 1024^2
C35_Witness ==
    /\ phase = "done"
    /\ searchIn.size_str = "2048 KB"
    /\ searchOut[1].mant = 2048 /\ searchOut[1].per = 2

(***************************************************************************)
(* Claim about the number of monitor loops, under SpecLoop.                *)
(***************************************************************************)
\* the threads of monitor_torrents_loop that are in a tick
LoopsInTick == {t \in LoopIds : loops[t].pc = "tick"}

\* C36: whatever start and stop requests are served and however they interleave
\* with the loop threads, at most one thread of monitor_torrents_loop is in a tick
\* at any time.
C36_AtMostOneLoop == Cardinality(LoopsInTick) <= 1

(***************************************************************************)
(* Claim about the hash of a submission, under SpecSubmitRace.             *)
(***************************************************************************)
\* C37: the hash a successful submission returns and records in its history entry
\* is the hash of the torrent this submission added to the client, and two
\* successful submissions of different torrents never record the same hash.
C37_HashOfOwnTorrent ==
    /\ \A w \in Submitters :
          (writers[w].pc \in {"record", "done"} /\ writers[w].result.success) =>
              writers[w].result.hash = ClientInfoHash(writers[w].magnet)
    /\ \A i \in 1..Len(history) :
          history[i].hash = ClientInfoHash(history[i].magnet)
    /\ \A i, j \in 1..Len(history) :
          ClientInfoHash(history[i].magnet) # ClientInfoHash(history[j].magnet)
              => history[i].hash # history[j].hash

(***************************************************************************)
(* Claim about the magnet of a replacement, under Spec.                    *)
(***************************************************************************)
\* the magnet of the top-ranked candidate of the replacement search, None when
\* there is no candidate
TopMagnet ==
    IF cur.candidates = <<>> THEN None ELSE Get(cur.candidates[1], "magnet_link", None)

\* C38: for a condemned torrent the monitor hands the client's add only a magnet
\* that is present and non-empty and is the magnet of the top-ranked candidate,
\* once at most; when the top-ranked candidate has no magnet nothing is submitted.
C38_NoSubmissionWithoutMagnet ==
    (cur # NoEntry /\ cur.condemned) =>
        /\ Len(cur.submitted) <= 1
        /\ \A k \in 1..Len(cur.submitted) :
              /\ cur.submitted[k] \notin {None, ""}
              /\ cur.searched /\ cur.submitted[k] = TopMagnet
        /\ (cur.searched /\ TopMagnet \in {None, ""}) => cur.submitted = <<>>

\* the replacement search found candidates, the top-ranked one has no magnet, and
\* the step ended with nothing submitted
C38_Witness ==
    /\ cur # NoEntry /\ cur.condemned /\ cur.searched /\ cur.done
    /\ cur.candidates # <<>>
    /\ TopMagnet = None
    /\ cur.submitted = <<>>
    /\ mpc = "loop"

(***************************************************************************)
(* Claim about the sources queried, under SpecSources.                     *)
(***************************************************************************)
\* C39: search_torrents calls the adapter of a source exactly when the source is
\* enabled in the configuration and either named in the sources argument or the
\* argument is omitted; a record of a source that was not queried is never
\* returned.
C39_OnlyEnabledRequestedSources ==
    phase = "done" =>
        /\ \A s \in SourceNames :
              s \in retryArg.queried <=>
                  /\ searchIn.enabled[s]
                  /\ retryArg.sources.omitted \/ s \in retryArg.sources.names
        /\ \A k \in 1..Len(searchOut) : searchOut[k].source \in retryArg.queried

\* both sources were requested, 1337x is disabled and its adapter would have
\* returned records: only WatchSoMuch was queried and its records are returned
C39_Witness ==
    /\ phase = "done"
    /\ retryArg.sources = Listed(SourceNames)
    /\ ~searchIn.enabled["1337x"] /\ searchIn.enabled["watchsomuch"]
    /\ searchIn.answer1337x.results # <<>>
    /\ retryArg.queried = {"watchsomuch"}
    /\ searchOut # <<>>

(***************************************************************************)
(* Claim about a quality that is no configured tier, under SpecQuality.    *)
(***************************************************************************)
\* C40: a search whose quality argument is a non-empty string that is not a key
\* of QUALITY_KEYWORDS returns the empty list, whatever the adapters returned.
C40_UnknownQualityReturnsNothing ==
    (phase = "done" /\ searchIn.quality # "" /\ searchIn.quality \notin QualityTiers)
        => searchOut = <<>>

\* the quality was 'HD', an adapter returned 'Show 720p HDTV', which passes the
\* other filters, and the search returned nothing
C40_Witness ==
    /\ phase = "done"
    /\ searchIn.quality = "HD"
    /\ \E i \in 1..Len(Pool) :
          /\ Pool[i].name = "Show 720p HDTV"
          /\ KeepResult(Pool[i], "", searchIn.min_size_gb, searchIn.max_size_gb)
    /\ searchOut = <<>>

====
